---- MODULE Spec2Model ----
(***************************************************************************)
(* Model of vikunja_mcp/server.py: the fractional position allocator, the  *)
(* sort-key extractors, the project-config deep merge and the batch-create *)
(* orchestrator.                                                           *)
(*                                                                         *)
(* Positions are Python floats.  They are modelled in fixed point: the     *)
(* integer p stands for the float p / Unit, Unit = 2^FracBits.  Halving a  *)
(* float is exact (no underflow at these magnitudes), and so it is here as *)
(* long as every halved value is even, which PositionsExact states.        *)
(***************************************************************************)
EXTENDS Integers, Sequences, FiniteSets, TLC

VARIABLES
    existing_sorted,  \* allocator: the working list of <<sort_key, position>>
    alloc_init,       \* allocator: existing_sorted as first built (history)
    alloc_log,        \* allocator: one record per allocation, in call order (history)
    heap,             \* deep merge: the dict objects, by address
    merge_base,       \* deep merge: address of the base argument
    merge_updates,    \* deep merge: address of the updates argument
    merge_result,     \* deep merge: address returned, 0 before the call
    merge_pre,        \* deep merge: the heap when _deep_merge was called (history)
    pc,               \* batch: the next statement of _batch_create_tasks_impl
    flags,            \* batch: the boolean parameters of the call
    tasks,            \* batch: the list of task inputs (defaults are written into it)
    tasks_in,         \* batch: the task inputs as passed by the caller (history)
    stored_config,    \* config file: the entry of this project, if any
    remote_labels,    \* service: label title -> id
    remote_buckets,   \* service: the buckets of the kanban view, [id, title]
    bucket_members,   \* service: the tasks in buckets, with bucket_id and position
    next_id,          \* service: the next identifier it assigns
    faults,           \* number of service calls that failed so far
    project_config,   \* batch local
    label_map,        \* batch local: label name -> id
    needed,           \* batch local: needed_labels / needed_buckets still to create
    n_tried,          \* batch local: the enumerate() index i of the creation loops
    view_id,          \* batch local: 0 stands for None
    n_existing,       \* batch local: len(existing_buckets)
    bucket_map,       \* batch local: bucket name -> id
    ref_map,          \* batch local: ref -> task id
    created_tasks,    \* batch local: [idx, id, title] per created task, idx the input
    todo,             \* batch local: the iterations left in the current loop
    bucket_tasks,     \* batch local: the new tasks of the bucket being sorted
    cur_bucket,       \* batch local: bucket_name of the bucket being sorted
    result,           \* batch local: the report
    calls,            \* the service calls issued, in order (history)
    files,            \* config store: path -> [exists, data] of the config directory
    writers,          \* config store: the state of each caller of a config operation
    store_log,        \* config store: the operations that ended, in order (history)
    store_faults,     \* config store: file operations that failed so far
    tmpl_args,        \* template: the arguments of _create_from_template_impl (history)
    key_case,         \* sort keys: the task, the strategy and the id being compared
    key_out,          \* sort keys: what each of the two extractors returned
    sort_args,        \* sort_bucket: the arguments of the calls and the calls left
    sort_runs,        \* sort_bucket: the bucket after each call that ended (history)
    place_call,       \* set_task_position: the arguments and locals of the call
    auth_case,        \* middleware: the configured key and the request
    auth_out          \* middleware: what dispatch did with the request

allocVars == <<existing_sorted, alloc_init, alloc_log>>
mergeVars == <<heap, merge_base, merge_updates, merge_result, merge_pre>>
inputVars == <<flags, tasks_in, stored_config, remote_labels, remote_buckets>>
localVars == <<project_config, label_map, needed, n_tried, view_id, n_existing,
               bucket_map, ref_map, created_tasks, todo, bucket_tasks, cur_bucket,
               result>>
batchVars == <<pc, tasks, inputVars, bucket_members, next_id, faults, localVars, calls>>
storeVars == <<files, writers, store_log, store_faults>>

\* the variables of the operations modelled after the batch orchestrator
tmplVars == <<tmpl_args>>
keyVars == <<key_case, key_out>>
sortVars == <<sort_args, sort_runs>>
placeVars == <<place_call>>
authVars == <<auth_case, auth_out>>
extVars == <<storeVars, tmplVars, keyVars, sortVars, placeVars, authVars>>

\* what the actions of one group leave alone
notStoreVars ==
    <<allocVars, mergeVars, batchVars, tmplVars, keyVars, sortVars, placeVars, authVars>>
notKeyVars ==
    <<allocVars, mergeVars, batchVars, storeVars, tmplVars, sortVars, placeVars, authVars>>
notAuthVars ==
    <<allocVars, mergeVars, batchVars, storeVars, tmplVars, keyVars, sortVars, placeVars>>
vars == <<allocVars, mergeVars, batchVars, extVars>>

(***************************************************************************)
(* Bounds                                                                  *)
(***************************************************************************)
FracBits == 4        \* fractional bits kept by the fixed-point positions
MaxKey == 3          \* sort keys are 1..MaxKey
MaxExisting == 2     \* members already in the bucket
MaxNew == 3          \* successive allocations in one pass
MaxTasks == 2        \* task inputs of one batch call
MaxFaults == 2       \* service calls that fail in one batch call
MaxOps == 3          \* config operations that one caller makes in a row
MaxRuns == 2         \* calls of sort_bucket made in a row on one bucket

Unit == 2 ^ FracBits
Pos(n) == n * Unit   \* the float n.0

Keys == 1..MaxKey
\* positions the service may hold for the existing members
RemotePositions == {Pos(-2000), Pos(-1000), Pos(0), Pos(1000), Pos(2000)}

(***************************************************************************)
(* Sequence helpers                                                        *)
(***************************************************************************)
\* an insert that is forgotten: every allocation sees the same sequence
InsertNothing(s, idx, x) == s

\* list.insert(idx, x) with a 0-based idx in 0..len
InsertAt(s, idx, x) == SubSeq(s, 1, idx) \o <<x>> \o SubSeq(s, idx + 1, Len(s))

\* [x[0] for x in existing_sorted]
KeysOf(s) == [i \in 1..Len(s) |-> s[i][1]]

(***************************************************************************)
(* bisect.bisect_left(a, x): the binary search of the standard library     *)
(***************************************************************************)
RECURSIVE BisectLoop(_, _, _, _)
BisectLoop(a, x, lo, hi) ==
    IF lo < hi
    THEN LET mid == (lo + hi) \div 2
         IN  IF a[mid + 1] < x
             THEN BisectLoop(a, x, mid + 1, hi)
             ELSE BisectLoop(a, x, lo, mid)
    ELSE lo

\* a search that always answers the end of the list
BisectAppend(a, x) == Len(a)

\* bisect_right: the insertion index after the elements equal to x
BisectRight(a, x) == Cardinality({ i \in 1..Len(a) : a[i] <= x })

BisectLeft(a, x) == BisectLoop(a, x, 0, Len(a))

(***************************************************************************)
(* The position computed between the neighbours of insert_idx              *)
(* (server.py 1359-1375, and the same text at 508-520)                     *)
(***************************************************************************)
Half(p) == p \div 2

NewPosTailBug(existing, insert_idx) ==
    IF Len(existing) = 0
    THEN Pos(1000)
    ELSE IF insert_idx = 0
    THEN LET first_pos == existing[1][2]
         IN  IF first_pos > 0 THEN Half(first_pos) ELSE Pos(-1000)
    ELSE IF insert_idx >= Len(existing)
    THEN existing[Len(existing)][2]
    ELSE Half(existing[insert_idx][2] + existing[insert_idx + 1][2])

NewPos(existing, insert_idx) ==
    IF Len(existing) = 0
    THEN Pos(1000)
    ELSE IF insert_idx = 0
    THEN LET first_pos == existing[1][2]
         IN  IF first_pos > 0 THEN Half(first_pos) ELSE Pos(-1000)
    ELSE IF insert_idx >= Len(existing)
    THEN LET last_pos == existing[Len(existing)][2]
         IN  last_pos + Pos(1000)
    ELSE LET prev_pos == existing[insert_idx][2]
             next_pos == existing[insert_idx + 1][2]
         IN  Half(prev_pos + next_pos)

(***************************************************************************)
(* _deep_merge (server.py 72-80) on a heap of dict objects.                *)
(* A value is an int, a list, or a reference to a dict object; a dict      *)
(* object is a function from its keys to values.  Python passes, copies    *)
(* and stores dicts by reference, so the heap is what shows whether an     *)
(* argument is written to.                                                 *)
(***************************************************************************)
IntV(n) == [t |-> "int", v |-> n]
ListV(l) == [t |-> "list", v |-> l]
DictV(d) == [t |-> "dict", v |-> d]   \* d: an address in the heap, or a tree in a value

EmptyDict == [k \in {} |-> 0]

\* d[key] = value on a dict object
DictSet(d, key, value) ==
    [k \in (DOMAIN d) \cup {key} |-> IF k = key THEN value ELSE d[k]]

\* result = base.copy(): a new object with the same items (a shallow copy)
CopyAliased(h, base) == [h |-> h, r |-> base]

Copy(h, base) == [h |-> Append(h, h[base]), r |-> Len(h) + 1]

\* key in result and isinstance(result[key], dict) and isinstance(value, dict)
BothDictsNever(d, key, value) == FALSE

BothDicts(d, key, value) ==
    key \in DOMAIN d /\ d[key].t = "dict" /\ value.t = "dict"

RECURSIVE DeepMergeLoop(_, _, _, _)
RECURSIVE DeepMerge(_, _, _)

\* the for loop of lines 75-79 over the remaining items of updates; the keys
\* of a dict are distinct, so the order of iteration does not change what
\* is stored under any key
DeepMergeLoop(h, merged, updates, items) ==
    IF items = {}
    THEN [h |-> h, r |-> merged]
    ELSE LET key == CHOOSE k \in items : TRUE
             value == h[updates][key]
         IN  IF BothDicts(h[merged], key, value)
             THEN LET sub == DeepMerge(h, h[merged][key].v, value.v)
                      h2 == [sub.h EXCEPT ![merged] = DictSet(@, key, DictV(sub.r))]
                  IN  DeepMergeLoop(h2, merged, updates, items \ {key})
             ELSE LET h2 == [h EXCEPT ![merged] = DictSet(@, key, value)]
                  IN  DeepMergeLoop(h2, merged, updates, items \ {key})

DeepMerge(h, base, updates) ==
    LET c == Copy(h, base)
    IN  DeepMergeLoop(c.h, c.r, updates, DOMAIN h[updates])

\* the value of the dict at address a, with every reference followed
RECURSIVE Deep(_, _)
Deep(h, a) ==
    [k \in DOMAIN h[a] |->
        IF h[a][k].t = "dict" THEN DictV(Deep(h, h[a][k].v)) ELSE h[a][k]]

(***************************************************************************)
(* Values of the batch orchestrator.                                       *)
(* Absent, None, "" and 0 are all falsy in the tests the code makes        *)
(* (task.get("bucket"), x or default, if ref:), so a string field that is  *)
(* absent holds "", a number or date field 0 and a list field <<>>.        *)
(* A date string is the integer of its rank: ISO dates of one format       *)
(* compare as strings the way their ranks compare, and "9999-12-31" is     *)
(* above them all.  A title is a code: 0 is "", 1..AlphabetSize the upper- *)
(* case initials "A".."Z", the next AlphabetSize the lower-case ones,      *)
(* which is the order in which Python compares one-letter strings.         *)
(***************************************************************************)
SentinelDate == 9999
AlphabetSize == 26
KanbanViewId == 1
FirstNewId == 101     \* the service gives new objects the ids from here on
PaletteSize == 6

Get(d, k, dflt) == IF k \in DOMAIN d THEN d[k] ELSE dflt

\* x or dflt
\* None, set apart from every date, priority, title and id; "", 0 and [] are
\* the 0 of their field
None == -1

Falsy(x) == x = 0 \/ x = None

OrElse(x, dflt) == IF Falsy(x) THEN dflt ELSE x

\* str.lower()
Lower(c) == IF c \in 1..AlphabetSize THEN c + AlphabetSize ELSE c

NoConfig == [some |-> FALSE, d |-> EmptyDict]
SomeConfig(d) == [some |-> TRUE, d |-> d]

\* if project_config: -- None and {} are both falsy
Truthy(cfg) == cfg.some /\ DOMAIN cfg.d # {}

\* _get_task_sort_key (850-864): the key of a record of the service;
\* task.get(k) is None when the key is absent
GetTaskSortKey(task, strategy) ==
    CASE strategy = "start_date" -> OrElse(Get(task, "start_date", None), SentinelDate)
      [] strategy = "due_date" -> OrElse(Get(task, "due_date", None), SentinelDate)
      [] strategy = "end_date" -> OrElse(Get(task, "end_date", None), SentinelDate)
      [] strategy = "priority" -> -(OrElse(Get(task, "priority", None), 0))
      [] strategy = "alphabetical" -> Lower(OrElse(Get(task, "title", None), 0))
      [] strategy = "created" -> OrElse(Get(task, "id", None), 0)
      [] OTHER -> 0

\* line 877: task_input.get("title", "") is None when the title is null, and
\* None has no lower()
InputSortKeyRaises(task_input, strategy) ==
    strategy = "alphabetical" /\ Get(task_input, "title", 0) = None

\* _get_input_sort_key (867-881): the key of a task input and its created
\* task, when it returns one
GetInputSortKey(task_input, created_task, strategy) ==
    CASE strategy = "start_date" -> OrElse(Get(task_input, "start_date", None), SentinelDate)
      [] strategy = "due_date" -> OrElse(Get(task_input, "due_date", None), SentinelDate)
      [] strategy = "end_date" -> OrElse(Get(task_input, "end_date", None), SentinelDate)
      [] strategy = "priority" -> -(OrElse(Get(task_input, "priority", None), 0))
      [] strategy = "alphabetical" -> Lower(Get(task_input, "title", 0))
      [] strategy = "created" -> OrElse(Get(created_task, "id", None), 0)
      [] OTHER -> 0

\* a sort that puts an element before the earlier elements of the same key
RECURSIVE SortByKeyTiesReversed(_)
SortByKeyTiesReversed(s) ==
    IF Len(s) = 0 THEN <<>>
    ELSE LET front == SortByKeyTiesReversed(SubSeq(s, 1, Len(s) - 1))
             x == s[Len(s)]
             n == Cardinality({ i \in 1..Len(front) : front[i][1] < x[1] })
         IN  InsertAt(front, n, x)

\* list.sort(key=lambda x: x[0]): stable, ascending by key
RECURSIVE SortByKey(_)
SortByKey(s) ==
    IF Len(s) = 0 THEN <<>>
    ELSE LET front == SortByKey(SubSeq(s, 1, Len(s) - 1))
             x == s[Len(s)]
             n == Cardinality({ i \in 1..Len(front) : front[i][1] <= x[1] })
         IN  InsertAt(front, n, x)

\* the elements of a sequence that satisfy Test, in order
SeqRange(s) == { s[i] : i \in 1..Len(s) }

RECURSIVE Flatten(_)
Flatten(ss) == IF Len(ss) = 0 THEN <<>> ELSE Head(ss) \o Flatten(Tail(ss))

(***************************************************************************)
(* The report and the log of service calls                                 *)
(***************************************************************************)
EmptyResult ==
    [created |-> 0, tasks |-> <<>>, labels_created |-> <<>>,
     relations_created |-> 0, errors |-> <<>>]

Call(op, task, arg, name, ok) ==
    [op |-> op, task |-> task, arg |-> arg, name |-> name, ok |-> ok]

\* an entry of result["errors"]; call is the index in calls of the call that
\* failed, 0 when the entry reports something found without a call
Error(kind, task, name, call) ==
    [kind |-> kind, task |-> task, name |-> name, call |-> call]

\* an except clause that swallows the failure
AddErrorSilent(res, e) == res

\* an except clause that records the failure twice
AddErrorTwice(res, e) == [res EXCEPT !.errors = Append(Append(@, e), e)]

AddError(res, e) == [res EXCEPT !.errors = Append(@, e)]

(***************************************************************************)
(* Lines 1123-1140: the stored config and its defaults                     *)
(***************************************************************************)
\* default labels written without the opt-in
ApplyDefaultsAlways(task, cfg, apply_default_labels) ==
    LET default_labels == Get(cfg, "default_labels", <<>>)
        default_bucket == Get(cfg, "default_bucket", "")
    IN  [task EXCEPT !.labels = IF Len(@) = 0 THEN default_labels ELSE @,
                     !.bucket = IF @ = "" THEN default_bucket ELSE @]

ApplyDefaults(task, cfg, apply_default_labels) ==
    LET default_labels == Get(cfg, "default_labels", <<>>)
        default_bucket == Get(cfg, "default_bucket", "")
        labelled ==
            IF apply_default_labels /\ Len(task.labels) = 0 /\ Len(default_labels) > 0
            THEN [task EXCEPT !.labels = default_labels]
            ELSE task
    IN  IF labelled.bucket = "" /\ default_bucket # ""
        THEN [labelled EXCEPT !.bucket = default_bucket]
        ELSE labelled

\* a lookup that does not read the per-bucket overrides
StrategyOfDefaultOnly(cfg, bucket_name) ==
    Get(Get(cfg, "sort_strategy", EmptyDict), "default", "manual")

\* lines 1305-1307 and 1320: the strategy of a bucket name
StrategyOf(cfg, bucket_name) ==
    LET sort_strategy == Get(cfg, "sort_strategy", EmptyDict)
        default_strategy == Get(sort_strategy, "default", "manual")
        bucket_strategies == Get(sort_strategy, "buckets", EmptyDict)
    IN  Get(bucket_strategies, bucket_name, default_strategy)

(***************************************************************************)
(* The loops after bucket resolution, as lists of iterations.  What the    *)
(* loops of steps 5-9 iterate over is fixed once the loop before them has  *)
(* ended: ctx holds the locals they read.                                  *)
(***************************************************************************)
\* a step 5 that is skipped when there is no kanban view
WorkCreateNeedsView(ctx) ==
    IF ctx.view_id # 0 THEN [i \in 1..Len(ctx.tasks) |-> [idx |-> i]] ELSE <<>>

\* a step 5 that tries every input a second time
WorkCreateTwice(ctx) == [i \in 1..(2 * Len(ctx.tasks)) |-> [idx |-> (i + 1) \div 2]]

\* step 5: for task_input in tasks
WorkCreate(ctx) == [i \in 1..Len(ctx.tasks) |-> [idx |-> i]]

\* step 6: for each created task, for each label name of its input
WorkAttach(ctx) ==
    Flatten([k \in 1..Len(ctx.created_tasks) |->
        LET labels == ctx.tasks[ctx.created_tasks[k].idx].labels
        IN  [j \in 1..Len(labels) |-> [ct |-> k, name |-> labels[j]]]])

\* a step 7 that drops the entries it cannot resolve without reporting them
WorkRelationsKnownOnly(ctx) ==
    Flatten([k \in 1..Len(ctx.created_tasks) |->
        LET t == ctx.tasks[ctx.created_tasks[k].idx]
            refs == { ctx.tasks[ctx.created_tasks[m].idx].ref :
                        m \in 1..Len(ctx.created_tasks) }
        IN  Flatten([j \in 1..Len(t.blocked_by) |->
                IF t.blocked_by[j] \in refs
                THEN <<[ct |-> k, kind |-> "blocked", ref |-> t.blocked_by[j]]>>
                ELSE <<>>])
            \o Flatten([j \in 1..Len(t.blocks) |->
                IF t.blocks[j] \in refs
                THEN <<[ct |-> k, kind |-> "blocking", ref |-> t.blocks[j]]>>
                ELSE <<>>])
            \o (IF t.subtask_of # "" /\ t.subtask_of \in refs
                THEN <<[ct |-> k, kind |-> "parenttask", ref |-> t.subtask_of]>>
                ELSE <<>>)])

\* a step 7 that sends the two directions the other way round
WorkRelationsSwapped(ctx) ==
    Flatten([k \in 1..Len(ctx.created_tasks) |->
        LET t == ctx.tasks[ctx.created_tasks[k].idx]
        IN  [j \in 1..Len(t.blocked_by) |->
                [ct |-> k, kind |-> "blocking", ref |-> t.blocked_by[j]]]
            \o [j \in 1..Len(t.blocks) |->
                [ct |-> k, kind |-> "blocked", ref |-> t.blocks[j]]]
            \o (IF t.subtask_of # ""
                THEN <<[ct |-> k, kind |-> "parenttask", ref |-> t.subtask_of]>>
                ELSE <<>>)])

\* step 7: for each created task: its blocked_by, its blocks, its subtask_of
WorkRelations(ctx) ==
    Flatten([k \in 1..Len(ctx.created_tasks) |->
        LET t == ctx.tasks[ctx.created_tasks[k].idx]
        IN  [j \in 1..Len(t.blocked_by) |->
                [ct |-> k, kind |-> "blocked", ref |-> t.blocked_by[j]]]
            \o [j \in 1..Len(t.blocks) |->
                [ct |-> k, kind |-> "blocking", ref |-> t.blocks[j]]]
            \o (IF t.subtask_of # ""
                THEN <<[ct |-> k, kind |-> "parenttask", ref |-> t.subtask_of]>>
                ELSE <<>>)])

\* step 8: if view_id and bucket_map: for each created task with a bucket
WorkPlacement(ctx) ==
    IF ctx.view_id # 0 /\ DOMAIN ctx.bucket_map # {}
    THEN Flatten([k \in 1..Len(ctx.created_tasks) |->
            IF ctx.tasks[ctx.created_tasks[k].idx].bucket # ""
            THEN <<[ct |-> k]>> ELSE <<>>])
    ELSE <<>>

\* tasks_by_bucket (1310-1316): the bucket names of the created tasks in the
\* order of their first appearance (a dict keeps insertion order)
RECURSIVE FirstSeen(_)
FirstSeen(names) ==
    IF Len(names) = 0 THEN <<>>
    ELSE LET front == FirstSeen(SubSeq(names, 1, Len(names) - 1))
             x == names[Len(names)]
         IN  IF x = "" \/ x \in SeqRange(front) THEN front ELSE Append(front, x)

BucketNamesCreated(ctx) ==
    FirstSeen([k \in 1..Len(ctx.created_tasks) |->
                  ctx.tasks[ctx.created_tasks[k].idx].bucket])

RECURSIVE SelectBuckets(_, _)
SelectBuckets(names, ctx) ==
    IF Len(names) = 0 THEN <<>>
    ELSE LET b == Head(names)
             rest == SelectBuckets(Tail(names), ctx)
         IN  IF StrategyOf(ctx.project_config.d, b) # "manual"
                /\ b \in DOMAIN ctx.bucket_map
             THEN <<b>> \o rest
             ELSE rest

\* step 9: if apply_sort and project_config and view_id: the buckets that the
\* loop at 1319 does not leave by one of its first two continue statements
WorkSort(ctx) ==
    IF ctx.flags.apply_sort /\ Truthy(ctx.project_config) /\ ctx.view_id # 0
    THEN SelectBuckets(BucketNamesCreated(ctx), ctx)
    ELSE <<>>

\* tasks_by_bucket[bucket_name]
TasksOfBucket(ctx, bucket_name) ==
    Flatten([k \in 1..Len(ctx.created_tasks) |->
        IF ctx.tasks[ctx.created_tasks[k].idx].bucket = bucket_name
        THEN <<ctx.created_tasks[k]>> ELSE <<>>])

\* relations sent before the tasks are created
PhaseOrderRelationsFirst ==
    <<"relations", "create_tasks", "attach_labels", "placement", "sort_buckets">>

\* a pass that puts the tasks into their buckets before it labels them
PhaseOrderPlacementFirst ==
    <<"create_tasks", "placement", "attach_labels", "relations", "sort_buckets">>

PhaseOrder == <<"create_tasks", "attach_labels", "relations", "placement", "sort_buckets">>

Work(ph, ctx) ==
    CASE ph = "create_tasks" -> WorkCreate(ctx)
      [] ph = "attach_labels" -> WorkAttach(ctx)
      [] ph = "relations" -> WorkRelations(ctx)
      [] ph = "placement" -> WorkPlacement(ctx)
      [] ph = "sort_buckets" -> WorkSort(ctx)

\* control reaches the k-th loop: it is entered if it has an iteration,
\* and otherwise the next one is tried; after the last, return result
RECURSIVE Goto(_, _)
Goto(k, ctx) ==
    IF k > Len(PhaseOrder)
    THEN [pc |-> "done", todo |-> <<>>]
    ELSE LET w == Work(PhaseOrder[k], ctx)
         IN  IF Len(w) = 0 THEN Goto(k + 1, ctx)
             ELSE [pc |-> PhaseOrder[k], todo |-> w]

PhaseIndex(ph) == CHOOSE k \in 1..Len(PhaseOrder) : PhaseOrder[k] = ph

Ctx == [tasks |-> tasks, created_tasks |-> created_tasks, flags |-> flags,
        project_config |-> project_config, view_id |-> view_id,
        bucket_map |-> bucket_map]

(***************************************************************************)
(* Inputs of the batch specifications                                      *)
(***************************************************************************)
Task(title, due_date, priority, labels, bucket, ref, blocked_by, blocks, subtask_of) ==
    [title |-> title, start_date |-> 0, end_date |-> 0, due_date |-> due_date,
     priority |-> priority, labels |-> labels, bucket |-> bucket, ref |-> ref,
     blocked_by |-> blocked_by, blocks |-> blocks, subtask_of |-> subtask_of]

Flags(create_missing_labels, create_missing_buckets, use_project_config, apply_sort, apply_default_labels) ==
    [create_missing_labels |-> create_missing_labels,
     create_missing_buckets |-> create_missing_buckets,
     use_project_config |-> use_project_config,
     apply_sort |-> apply_sort,
     apply_default_labels |-> apply_default_labels]

\* the defaults of the parameters (1094-1098)
DefaultFlags == Flags(TRUE, FALSE, TRUE, TRUE, FALSE)

Member(id, bucket_id, title, due_date, priority, position) ==
    [id |-> id, bucket_id |-> bucket_id, title |-> title, start_date |-> 0,
     due_date |-> due_date, end_date |-> 0, priority |-> priority,
     position |-> position]

\* the lists of at most n elements of pool
ListsOver(pool, n) == UNION { [1..k -> pool] : k \in 0..n }

AllocIdle ==
    /\ existing_sorted = <<>>
    /\ alloc_init = <<>>
    /\ alloc_log = <<>>

MergeIdle ==
    /\ heap = <<>>
    /\ merge_base = 0
    /\ merge_updates = 0
    /\ merge_result = 0
    /\ merge_pre = <<>>

\* no config operation is in progress and the config directory is empty
StoreIdle ==
    /\ files = [path \in {} |-> 0]
    /\ writers = <<>>
    /\ store_log = <<>>
    /\ store_faults = 0

TemplateIdle == tmpl_args = <<>>

KeysIdle == key_case = <<>> /\ key_out = <<>>

SortIdle == sort_args = <<>> /\ sort_runs = <<>>

PlaceIdle == place_call = <<>>

AuthIdle == auth_case = <<>> /\ auth_out = <<>>

ExtIdle == StoreIdle /\ TemplateIdle /\ KeysIdle /\ SortIdle /\ PlaceIdle /\ AuthIdle

BatchIdle ==
    /\ pc = "idle"
    /\ flags = DefaultFlags
    /\ tasks = <<>>
    /\ tasks_in = <<>>
    /\ stored_config = NoConfig
    /\ remote_labels = EmptyDict
    /\ remote_buckets = <<>>
    /\ bucket_members = <<>>
    /\ next_id = 0
    /\ faults = 0
    /\ project_config = NoConfig
    /\ label_map = EmptyDict
    /\ needed = {}
    /\ n_tried = 0
    /\ view_id = 0
    /\ n_existing = 0
    /\ bucket_map = EmptyDict
    /\ ref_map = EmptyDict
    /\ created_tasks = <<>>
    /\ todo = <<>>
    /\ bucket_tasks = <<>>
    /\ cur_bucket = ""
    /\ result = EmptyResult
    /\ calls = <<>>

\* the state in which _batch_create_tasks_impl is called
BatchCalled(task_list, fl, cfg, labels, buckets, members) ==
    /\ pc = "start"
    /\ flags = fl
    /\ tasks = task_list
    /\ tasks_in = task_list
    /\ stored_config = cfg
    /\ remote_labels = labels
    /\ remote_buckets = buckets
    /\ bucket_members = members
    /\ next_id = FirstNewId
    /\ faults = 0
    /\ project_config = NoConfig
    /\ label_map = EmptyDict
    /\ needed = {}
    /\ n_tried = 0
    /\ view_id = 0
    /\ n_existing = 0
    /\ bucket_map = EmptyDict
    /\ ref_map = EmptyDict
    /\ created_tasks = <<>>
    /\ todo = <<>>
    /\ bucket_tasks = <<>>
    /\ cur_bucket = ""
    /\ result = EmptyResult
    /\ calls = <<>>
    /\ AllocIdle
    /\ MergeIdle
    /\ ExtIdle

(***************************************************************************)
(* _batch_create_tasks_impl (1091-1386), one action per service call.      *)
(* Every call of _request may raise; at most MaxFaults calls of one run do.*)
(***************************************************************************)
Outcomes == IF faults < MaxFaults THEN {TRUE, FALSE} ELSE {TRUE}

Failed(ok) == IF ok THEN faults ELSE faults + 1

\* lines 1123-1147: load the stored config, write the defaults into the inputs
StartBatch ==
    /\ pc = "start"
    /\ LET cfg == IF flags.use_project_config THEN stored_config ELSE NoConfig
       IN  /\ project_config' = cfg
           /\ tasks' = IF Truthy(cfg)
                       THEN [i \in 1..Len(tasks) |->
                               ApplyDefaults(tasks[i], cfg.d, flags.apply_default_labels)]
                       ELSE tasks
    /\ result' = EmptyResult
    /\ pc' = "list_labels"
    /\ UNCHANGED <<inputVars, bucket_members, next_id, faults, calls>>
    /\ UNCHANGED <<label_map, needed, n_tried, view_id, n_existing, bucket_map, ref_map,
                   created_tasks, todo, bucket_tasks, cur_bucket>>
    /\ UNCHANGED <<allocVars, mergeVars>>
    /\ UNCHANGED extVars

\* a label list fetched in a try: the batch goes on without the labels
AfterLabelListFailureGoOn == "get_view"

\* line 1150 is in no try: the exception of _request (111-116) leaves the call
AfterLabelListFailure == "raised"

\* lines 1149-1158: _list_labels_impl is called outside any try
ListLabels ==
    /\ pc = "list_labels"
    /\ \E ok \in Outcomes :
        /\ calls' = Append(calls, Call("list_labels", 0, 0, "", ok))
        /\ faults' = Failed(ok)
        /\ IF ok
           THEN LET wanted == UNION { SeqRange(tasks[i].labels) : i \in 1..Len(tasks) }
                    needed_labels == wanted \ DOMAIN remote_labels
                IN  /\ label_map' = remote_labels
                    /\ needed' = IF flags.create_missing_labels THEN needed_labels ELSE {}
                    /\ pc' = IF needed' # {} THEN "create_labels" ELSE "get_view"
           ELSE /\ pc' = AfterLabelListFailure
                /\ UNCHANGED <<label_map, needed>>
    /\ n_tried' = 0
    /\ UNCHANGED <<tasks, inputVars, bucket_members, next_id>>
    /\ UNCHANGED <<project_config, view_id, n_existing, bucket_map, ref_map,
                   created_tasks, todo, bucket_tasks, cur_bucket, result>>
    /\ UNCHANGED <<allocVars, mergeVars>>
    /\ UNCHANGED extVars

\* lines 1164-1170: needed_labels is a set, iterated in no particular order
CreateLabel ==
    /\ pc = "create_labels"
    /\ \E label_name \in needed, ok \in Outcomes :
        /\ calls' = Append(calls,
              Call("create_label", 0, n_tried % PaletteSize, label_name, ok))
        /\ faults' = Failed(ok)
        /\ IF ok
           THEN /\ label_map' = DictSet(label_map, label_name, next_id)
                /\ remote_labels' = DictSet(remote_labels, label_name, next_id)
                /\ next_id' = next_id + 1
                /\ result' = [result EXCEPT !.labels_created = Append(@, label_name)]
           ELSE /\ result' = AddError(result,
                                Error("create_label", 0, label_name, Len(calls) + 1))
                /\ UNCHANGED <<label_map, remote_labels, next_id>>
        /\ needed' = needed \ {label_name}
        /\ pc' = IF needed' = {} THEN "get_view" ELSE "create_labels"
    /\ n_tried' = n_tried + 1
    /\ UNCHANGED <<tasks, flags, tasks_in, stored_config, remote_buckets, bucket_members>>
    /\ UNCHANGED <<project_config, view_id, n_existing, bucket_map, ref_map,
                   created_tasks, todo, bucket_tasks, cur_bucket>>
    /\ UNCHANGED <<allocVars, mergeVars>>
    /\ UNCHANGED extVars

\* control reaches step 5 with these locals
EnterCreate(vid, bmap) ==
    LET g == Goto(1, [Ctx EXCEPT !.view_id = vid, !.bucket_map = bmap])
    IN  /\ pc' = g.pc
        /\ todo' = g.todo

\* lines 1173-1181: needs_buckets, then _get_kanban_view_impl inside the try
GetKanbanView ==
    /\ pc = "get_view"
    /\ LET needs_buckets == \E i \in 1..Len(tasks) : tasks[i].bucket # ""
       IN  IF needs_buckets
           THEN \E ok \in Outcomes :
                /\ calls' = Append(calls, Call("get_kanban_view", 0, 0, "", ok))
                /\ faults' = Failed(ok)
                /\ IF ok
                   THEN /\ view_id' = KanbanViewId
                        /\ pc' = "list_buckets"
                        /\ UNCHANGED <<result, todo>>
                   ELSE /\ result' = AddError(result,
                                        Error("kanban_view", 0, "", Len(calls) + 1))
                        /\ EnterCreate(0, EmptyDict)
                        /\ UNCHANGED view_id
           ELSE /\ EnterCreate(0, EmptyDict)
                /\ UNCHANGED <<calls, faults, view_id, result>>
    /\ UNCHANGED <<tasks, inputVars, bucket_members, next_id>>
    /\ UNCHANGED <<project_config, label_map, needed, n_tried, n_existing, bucket_map,
                   ref_map, created_tasks, bucket_tasks, cur_bucket>>
    /\ UNCHANGED <<allocVars, mergeVars>>
    /\ UNCHANGED extVars

\* lines 1182-1191 and 1199-1200: _list_buckets_impl in the same try, after
\* view_id has been assigned
ListBuckets ==
    /\ pc = "list_buckets"
    /\ \E ok \in Outcomes :
        /\ calls' = Append(calls, Call("list_buckets", 0, 0, "", ok))
        /\ faults' = Failed(ok)
        /\ IF ok
           THEN LET bmap == [name \in { remote_buckets[i].title :
                                          i \in 1..Len(remote_buckets) } |->
                               LET i == CHOOSE j \in 1..Len(remote_buckets) :
                                          /\ remote_buckets[j].title = name
                                          /\ \A l \in (j + 1)..Len(remote_buckets) :
                                                 remote_buckets[l].title # name
                               IN  remote_buckets[i].id]
                    wanted == { tasks[i].bucket : i \in 1..Len(tasks) } \ {""}
                    needed_buckets ==
                        IF flags.create_missing_buckets THEN wanted \ DOMAIN bmap ELSE {}
                IN  /\ bucket_map' = bmap
                    /\ n_existing' = Len(remote_buckets)
                    /\ needed' = needed_buckets
                    /\ IF needed_buckets # {}
                       THEN pc' = "create_buckets" /\ UNCHANGED todo
                       ELSE EnterCreate(view_id, bmap)
                    /\ UNCHANGED result
           ELSE /\ result' = AddError(result, Error("kanban_view", 0, "", Len(calls) + 1))
                /\ EnterCreate(view_id, bucket_map)
                /\ UNCHANGED <<bucket_map, n_existing, needed>>
    /\ n_tried' = 0
    /\ UNCHANGED <<tasks, inputVars, bucket_members, next_id>>
    /\ UNCHANGED <<project_config, label_map, view_id, ref_map, created_tasks,
                   bucket_tasks, cur_bucket>>
    /\ UNCHANGED <<allocVars, mergeVars>>
    /\ UNCHANGED extVars

\* lines 1193-1198: needed_buckets is a set, iterated in no particular order
CreateBucket ==
    /\ pc = "create_buckets"
    /\ \E bucket_name \in needed, ok \in Outcomes :
        /\ calls' = Append(calls,
              Call("create_bucket", 0, n_existing + n_tried, bucket_name, ok))
        /\ faults' = Failed(ok)
        /\ needed' = needed \ {bucket_name}
        /\ IF ok
           THEN /\ bucket_map' = DictSet(bucket_map, bucket_name, next_id)
                /\ remote_buckets' = Append(remote_buckets,
                                        [id |-> next_id, title |-> bucket_name])
                /\ next_id' = next_id + 1
                /\ UNCHANGED result
           ELSE /\ result' = AddError(result,
                                Error("create_bucket", 0, bucket_name, Len(calls) + 1))
                /\ UNCHANGED <<bucket_map, remote_buckets, next_id>>
        /\ IF needed' = {}
           THEN EnterCreate(view_id, bucket_map')
           ELSE pc' = "create_buckets" /\ UNCHANGED todo
    /\ n_tried' = n_tried + 1
    /\ UNCHANGED <<tasks, flags, tasks_in, stored_config, remote_labels, bucket_members>>
    /\ UNCHANGED <<project_config, label_map, view_id, n_existing, ref_map,
                   created_tasks, bucket_tasks, cur_bucket>>
    /\ UNCHANGED <<allocVars, mergeVars>>
    /\ UNCHANGED extVars

\* the current loop has done its first iteration: go on with the rest, or
\* enter the next loop that has an iteration, with created as created_tasks
Advance(created) ==
    IF Len(todo) > 1
    THEN pc' = pc /\ todo' = Tail(todo)
    ELSE LET g == Goto(PhaseIndex(pc) + 1, [Ctx EXCEPT !.created_tasks = created])
         IN  pc' = g.pc /\ todo' = g.todo

\* lines 1206-1233: one iteration of step 5
CreateTask ==
    /\ pc = "create_tasks"
    /\ LET idx == Head(todo).idx
           task_input == tasks[idx]
       IN  \E ok \in Outcomes :
            /\ calls' = Append(calls,
                  Call("create_task", IF ok THEN next_id ELSE 0, idx, "", ok))
            /\ faults' = Failed(ok)
            /\ IF ok
               THEN /\ result' = [result EXCEPT
                          !.created = @ + 1,
                          !.tasks = Append(@, [ref |-> task_input.ref, id |-> next_id,
                                               title |-> task_input.title])]
                    /\ ref_map' = IF task_input.ref # ""
                                  THEN DictSet(ref_map, task_input.ref, next_id)
                                  ELSE ref_map
                    /\ created_tasks' = Append(created_tasks,
                          [idx |-> idx, id |-> next_id, title |-> task_input.title])
                    /\ next_id' = next_id + 1
               ELSE /\ result' = AddError(result,
                                    Error("create_task", 0, "", Len(calls) + 1))
                    /\ UNCHANGED <<ref_map, created_tasks, next_id>>
            /\ Advance(created_tasks')
    /\ UNCHANGED <<tasks, inputVars, bucket_members>>
    /\ UNCHANGED <<project_config, label_map, needed, n_tried, view_id, n_existing,
                   bucket_map, bucket_tasks, cur_bucket>>
    /\ UNCHANGED <<allocVars, mergeVars>>
    /\ UNCHANGED extVars

\* lines 1237-1245: one iteration of the inner loop of step 6
AttachLabel ==
    /\ pc = "attach_labels"
    /\ LET item == Head(todo)
           task_id == created_tasks[item.ct].id
       IN  IF item.name \in DOMAIN label_map
           THEN \E ok \in Outcomes :
                /\ calls' = Append(calls,
                      Call("add_label", task_id, label_map[item.name], item.name, ok))
                /\ faults' = Failed(ok)
                /\ result' = IF ok THEN result
                             ELSE AddError(result,
                                    Error("add_label", task_id, item.name, Len(calls) + 1))
           ELSE /\ result' = AddError(result,
                                Error("label_not_found", task_id, item.name, 0))
                /\ UNCHANGED <<calls, faults>>
    /\ Advance(created_tasks)
    /\ UNCHANGED <<tasks, inputVars, bucket_members, next_id>>
    /\ UNCHANGED <<project_config, label_map, needed, n_tried, view_id, n_existing,
                   bucket_map, ref_map, created_tasks, bucket_tasks, cur_bucket>>
    /\ UNCHANGED <<allocVars, mergeVars>>
    /\ UNCHANGED extVars

\* lines 1252-1286: one blocked_by, blocks or subtask_of entry of step 7
CreateRelation ==
    /\ pc = "relations"
    /\ LET item == Head(todo)
           task_id == created_tasks[item.ct].id
       IN  IF item.ref \in DOMAIN ref_map
           THEN \E ok \in Outcomes :
                /\ calls' = Append(calls,
                      Call("create_relation", task_id, ref_map[item.ref], item.kind, ok))
                /\ faults' = Failed(ok)
                /\ result' = IF ok
                             THEN [result EXCEPT !.relations_created = @ + 1]
                             ELSE AddError(result,
                                    Error("create_relation", task_id, item.kind,
                                          Len(calls) + 1))
           ELSE /\ result' = AddError(result, Error("unknown_ref", task_id, item.ref, 0))
                /\ UNCHANGED <<calls, faults>>
    /\ Advance(created_tasks)
    /\ UNCHANGED <<tasks, inputVars, bucket_members, next_id>>
    /\ UNCHANGED <<project_config, label_map, needed, n_tried, view_id, n_existing,
                   bucket_map, ref_map, created_tasks, bucket_tasks, cur_bucket>>
    /\ UNCHANGED <<allocVars, mergeVars>>
    /\ UNCHANGED extVars

\* the record the service keeps of a task put into a bucket; the position it
\* gives it there is never read: the new tasks are filtered out at 1338-1339
MemberOf(created_task, task_input, bucket_id) ==
    [id |-> created_task.id, bucket_id |-> bucket_id, title |-> task_input.title,
     start_date |-> task_input.start_date, due_date |-> task_input.due_date,
     end_date |-> task_input.end_date, priority |-> task_input.priority,
     position |-> 0]

\* lines 1290-1300: one iteration of step 8; _set_task_position_impl without
\* apply_sort is the one POST of line 450
PlaceTask ==
    /\ pc = "placement"
    /\ LET item == Head(todo)
           created_task == created_tasks[item.ct]
           task_input == tasks[created_task.idx]
           bucket_name == task_input.bucket
       IN  IF bucket_name \in DOMAIN bucket_map
           THEN \E ok \in Outcomes :
                /\ calls' = Append(calls,
                      Call("set_bucket", created_task.id, bucket_map[bucket_name],
                           bucket_name, ok))
                /\ faults' = Failed(ok)
                /\ IF ok
                   THEN /\ bucket_members' = Append(bucket_members,
                              MemberOf(created_task, task_input, bucket_map[bucket_name]))
                        /\ UNCHANGED result
                   ELSE /\ result' = AddError(result,
                              Error("set_bucket", created_task.id, bucket_name,
                                    Len(calls) + 1))
                        /\ UNCHANGED bucket_members
           ELSE /\ result' = AddError(result,
                      Error("bucket_not_found", created_task.id, bucket_name, 0))
                /\ UNCHANGED <<calls, faults, bucket_members>>
    /\ Advance(created_tasks)
    /\ UNCHANGED <<tasks, inputVars, next_id>>
    /\ UNCHANGED <<project_config, label_map, needed, n_tried, view_id, n_existing,
                   bucket_map, ref_map, created_tasks, bucket_tasks, cur_bucket>>
    /\ UNCHANGED <<allocVars, mergeVars>>
    /\ UNCHANGED extVars

\* _get_bucket_tasks_raw (841-847): the tasks of one bucket, as the service lists them
BucketTasksRaw(bucket_id) ==
    Flatten([i \in 1..Len(bucket_members) |->
        IF bucket_members[i].bucket_id = bucket_id THEN <<bucket_members[i]>> ELSE <<>>])

\* lines 1337-1347: drop the new tasks, pair key and position, sort by key
ExistingSorted(existing_raw, new_task_ids, strategy) ==
    LET kept == Flatten([i \in 1..Len(existing_raw) |->
                    IF existing_raw[i].id \notin new_task_ids
                    THEN <<existing_raw[i]>> ELSE <<>>])
    IN  SortByKey([i \in 1..Len(kept) |->
                     <<GetTaskSortKey(kept[i], strategy), kept[i].position>>])

\* lines 1319-1350: one bucket of step 9, up to the loop over its new tasks
FetchBucket ==
    /\ pc = "sort_buckets"
    /\ LET bucket_name == Head(todo)
           strategy == StrategyOf(project_config.d, bucket_name)
           bucket_id == bucket_map[bucket_name]
           new_tasks == TasksOfBucket(Ctx, bucket_name)
           new_task_ids == { new_tasks[i].id : i \in 1..Len(new_tasks) }
       IN  \E ok \in Outcomes :
            /\ calls' = Append(calls,
                  Call("get_bucket_tasks", 0, bucket_id, bucket_name, ok))
            /\ faults' = Failed(ok)
            /\ todo' = Tail(todo)
            /\ IF ok
               THEN /\ existing_sorted' =
                          ExistingSorted(BucketTasksRaw(bucket_id), new_task_ids, strategy)
                    /\ alloc_init' = existing_sorted'
                    /\ bucket_tasks' = new_tasks
                    /\ cur_bucket' = bucket_name
                    /\ pc' = "sort_tasks"
                    /\ UNCHANGED result
               ELSE /\ result' = AddError(result,
                          Error("get_bucket_tasks", 0, bucket_name, Len(calls) + 1))
                    /\ pc' = IF Len(todo) > 1 THEN "sort_buckets" ELSE "done"
                    /\ UNCHANGED <<existing_sorted, alloc_init, bucket_tasks, cur_bucket>>
    /\ UNCHANGED <<tasks, inputVars, bucket_members, next_id>>
    /\ UNCHANGED <<project_config, label_map, needed, n_tried, view_id, n_existing,
                   bucket_map, ref_map, created_tasks>>
    /\ UNCHANGED <<alloc_log, mergeVars>>
    /\ UNCHANGED extVars

\* the service stores the position of a task
StorePosition(members, task_id, position) ==
    [i \in 1..Len(members) |->
        IF members[i].id = task_id
        THEN [members[i] EXCEPT !.position = position]
        ELSE members[i]]

\* lines 1353-1384: one new task of the bucket
\* an insert made in the try, after the call: skipped when the call raised
WorkingAfterSuccessOnly(existing, insert_idx, entry, ok) ==
    IF ok THEN InsertAt(existing, insert_idx, entry) ELSE existing

\* lines 1383-1384, after the try/except of the position-set call: the
\* entry is inserted whether or not the call raised
WorkingAfter(existing, insert_idx, entry, ok) == InsertAt(existing, insert_idx, entry)

SetPosition ==
    /\ pc = "sort_tasks"
    /\ LET created_task == Head(bucket_tasks)
           task_input == tasks[created_task.idx]
           strategy == StrategyOf(project_config.d, cur_bucket)
           new_key == GetInputSortKey(task_input, created_task, strategy)
           existing_keys == KeysOf(existing_sorted)
           insert_idx == BisectLeft(existing_keys, new_key)
           new_pos == NewPos(existing_sorted, insert_idx)
       IN  /\ \E ok \in Outcomes :
                /\ calls' = Append(calls,
                      Call("set_position", created_task.id, new_pos, cur_bucket, ok))
                /\ faults' = Failed(ok)
                /\ IF ok
                   THEN /\ bucket_members' =
                              StorePosition(bucket_members, created_task.id, new_pos)
                        /\ UNCHANGED result
                   ELSE /\ result' = AddError(result,
                              Error("set_position", created_task.id, cur_bucket,
                                    Len(calls) + 1))
                        /\ UNCHANGED bucket_members
                /\ existing_sorted' =
                      WorkingAfter(existing_sorted, insert_idx, <<new_key, new_pos>>, ok)
           /\ alloc_log' = Append(alloc_log,
                  [key |-> new_key, pos |-> new_pos, idx |-> insert_idx,
                   before |-> existing_sorted, task |-> created_task.id,
                   bucket |-> cur_bucket])
    /\ bucket_tasks' = Tail(bucket_tasks)
    /\ pc' = IF Len(bucket_tasks) > 1 THEN "sort_tasks"
             ELSE IF Len(todo) > 0 THEN "sort_buckets" ELSE "done"
    /\ UNCHANGED <<tasks, inputVars, next_id>>
    /\ UNCHANGED <<project_config, label_map, needed, n_tried, view_id, n_existing,
                   bucket_map, ref_map, created_tasks, todo, cur_bucket>>
    /\ UNCHANGED <<alloc_init, mergeVars>>
    /\ UNCHANGED extVars

NextBatch ==
    \/ StartBatch
    \/ ListLabels
    \/ CreateLabel
    \/ GetKanbanView
    \/ ListBuckets
    \/ CreateBucket
    \/ CreateTask
    \/ AttachLabel
    \/ CreateRelation
    \/ PlaceTask
    \/ FetchBucket
    \/ SetPosition

\* the titles "Design", "Build", "banana", "Cherry" by their initials
TitleD == 4
TitleB == 2
TitleLowerB == AlphabetSize + 2
TitleC == 3

\* the scenario of the end-to-end test, with labels and a second bucket, so
\* that every loop of the handler has something to do
Design == Task(TitleD, 1, 0, <<"L1">>, "", "d", <<>>, <<>>, "")
Build == Task(TitleB, 0, 3, <<"L2">>, "", "b", <<"d">>, <<>>, "")
BuildElsewhere == [Build EXCEPT !.bucket = "B2"]

BucketB1 == [id |-> 11, title |-> "B1"]
BucketB2 == [id |-> 12, title |-> "B2"]

DueDateConfig ==
    SomeConfig([default_bucket |-> "B1", sort_strategy |-> [default |-> "due_date"]])

InitFull ==
    \E task_list \in { <<Design, Build>>, <<Build, Design>>, <<Design, BuildElsewhere>> },
       cml \in BOOLEAN, cmb \in BOOLEAN,
       members \in { <<>>, <<Member(21, 11, TitleC, 2, 1, Pos(1000))>> } :
        BatchCalled(task_list, Flags(cml, cmb, TRUE, TRUE, FALSE), DueDateConfig,
                    [L1 |-> 1], <<BucketB1>>, members)

\* General inputs: tasks with labels, buckets and relations, under every
\* combination of the five flags
GeneralPool ==
    { Task(1, 2, 1, <<"L1">>, "B1", "a", <<>>, <<>>, ""),
      Task(TitleB, 0, 0, <<"L1", "L2">>, "", "b", <<"a">>, <<>>, ""),
      Task(TitleC, 1, 5, <<>>, "B2", "", <<>>, <<"zz">>, "a") }

DefaultsConfig ==
    SomeConfig([default_labels |-> <<"L3">>, default_bucket |-> "B1",
                sort_strategy |-> [default |-> "priority",
                                   buckets |-> [B2 |-> "manual"]]])

\* the flags with the stored config: every setting of the flags when the
\* config is read, and use_project_config off or nothing stored otherwise
GeneralCalls ==
    { [flags |-> Flags(a, b, TRUE, d, e), cfg |-> DefaultsConfig] :
        a \in BOOLEAN, b \in BOOLEAN, d \in BOOLEAN, e \in BOOLEAN }
    \cup { [flags |-> Flags(a, b, FALSE, TRUE, TRUE), cfg |-> DefaultsConfig] :
        a \in BOOLEAN, b \in BOOLEAN }
    \cup { [flags |-> Flags(a, b, TRUE, TRUE, TRUE), cfg |-> NoConfig] :
        a \in BOOLEAN, b \in BOOLEAN }

InitGeneral ==
    \E task_list \in ListsOver(GeneralPool, MaxTasks), call \in GeneralCalls,
       populated \in BOOLEAN :
        IF populated
        THEN BatchCalled(task_list, call.flags, call.cfg, [L1 |-> 1], <<BucketB1>>,
                         <<Member(21, 11, TitleC, 2, 1, Pos(1000))>>)
        ELSE BatchCalled(task_list, call.flags, call.cfg, EmptyDict, <<>>, <<>>)

SpecBatch == InitGeneral /\ [][NextBatch]_vars

\* Relation inputs: every ref with every shape of blocked_by, blocks and
\* subtask_of, "x" being a ref that no task declares
Refs == {"", "a", "b"}

RelationShapes ==
    { [blocked_by |-> <<>>, blocks |-> <<>>, subtask_of |-> ""],
      [blocked_by |-> <<"a">>, blocks |-> <<>>, subtask_of |-> ""],
      [blocked_by |-> <<>>, blocks |-> <<"b">>, subtask_of |-> "a"],
      [blocked_by |-> <<"x", "b">>, blocks |-> <<>>, subtask_of |-> "x"] }

RelationPool ==
    { Task(IF ref = "a" THEN 1 ELSE TitleB, 0, 0, <<>>, "", ref,
           sh.blocked_by, sh.blocks, sh.subtask_of) :
        ref \in Refs, sh \in RelationShapes }

InitRelations ==
    \/ \E task_list \in ListsOver(RelationPool, MaxTasks) :
          BatchCalled(task_list, DefaultFlags, NoConfig, EmptyDict, <<>>, <<>>)
    \/ InitFull

SpecBatchRel == InitRelations /\ [][NextBatch]_vars

\* Sort inputs: tasks that differ in their sort keys and buckets, under the
\* strategies of the configs below, into empty and populated buckets
SortPool ==
    { Task(k.title, k.due_date, k.priority, <<>>, bucket, "", <<>>, <<>>, "") :
        k \in { [title |-> TitleD, due_date |-> 1, priority |-> 0],
                [title |-> TitleLowerB, due_date |-> 0, priority |-> 3],
                [title |-> TitleC, due_date |-> 2, priority |-> 5] },
        bucket \in {"B1", "B2"} }

SortConfigs ==
    { NoConfig,
      SomeConfig(EmptyDict),
      SomeConfig([default_bucket |-> "B1"]),
      SomeConfig([sort_strategy |-> [default |-> "due_date"]]),
      SomeConfig([sort_strategy |-> [default |-> "priority",
                                     buckets |-> [B2 |-> "manual"]]]),
      SomeConfig([sort_strategy |-> [default |-> "manual",
                                     buckets |-> [B1 |-> "alphabetical",
                                                  B2 |-> "created"]]]),
      SomeConfig([sort_strategy |-> [default |-> "by_size"]]) }

\* what the service holds: B1 empty and no B2; B1 with two members and B2
\* with one; no bucket at all
SortRemotes ==
    { [buckets |-> <<BucketB1>>, members |-> <<>>],
      [buckets |-> <<BucketB1, BucketB2>>,
       members |-> <<Member(21, 11, TitleC, 2, 1, Pos(2000)),
                     Member(22, 12, TitleB, 1, 0, Pos(0)),
                     Member(23, 11, 1, 1, 4, Pos(1000))>>],
      [buckets |-> <<>>, members |-> <<>>] }

SortFlags ==
    { Flags(TRUE, cmb, TRUE, TRUE, FALSE) : cmb \in BOOLEAN }
    \cup { Flags(TRUE, FALSE, TRUE, FALSE, FALSE) }

InitSort ==
    \/ \E task_list \in ListsOver(SortPool, MaxTasks), fl \in SortFlags,
          cfg \in SortConfigs, remote \in SortRemotes :
          BatchCalled(task_list, fl, cfg, EmptyDict, remote.buckets, remote.members)
    \/ InitFull

SpecBatchSort == InitSort /\ [][NextBatch]_vars

(***************************************************************************)
(* Allocator specification: a bucket's existing members, sorted by key as  *)
(* existing_sorted.sort(key=...) leaves them, then successive allocations  *)
(* each inserted into the working list before the next.                    *)
(***************************************************************************)
SortedByKey(s) == \A i \in 1..(Len(s) - 1) : s[i][1] <= s[i + 1][1]

ExistingLists ==
    { s \in UNION { [1..n -> Keys \X RemotePositions] : n \in 0..MaxExisting } :
        SortedByKey(s) }

InitAlloc ==
    /\ existing_sorted \in ExistingLists
    /\ alloc_init = existing_sorted
    /\ alloc_log = <<>>
    /\ MergeIdle
    /\ BatchIdle
    /\ ExtIdle

\* One pass of the loop body at 1353-1384 for a new task whose key is new_key
Allocate(new_key) ==
    /\ Len(alloc_log) < MaxNew
    /\ LET existing_keys == KeysOf(existing_sorted)
           insert_idx == BisectLeft(existing_keys, new_key)
           new_pos == NewPos(existing_sorted, insert_idx)
       IN  /\ existing_sorted' = InsertAt(existing_sorted, insert_idx, <<new_key, new_pos>>)
           /\ alloc_log' = Append(alloc_log,
                  [key |-> new_key, pos |-> new_pos, idx |-> insert_idx,
                   before |-> existing_sorted])
    /\ UNCHANGED alloc_init
    /\ UNCHANGED <<mergeVars, batchVars>>
    /\ UNCHANGED extVars

NextAlloc == \E k \in Keys : Allocate(k)

SpecAlloc == InitAlloc /\ [][NextAlloc]_vars

(***************************************************************************)
(* Deep-merge specification: base and updates are drawn from the nested    *)
(* values below, built as separate objects, and _deep_merge is called once *)
(***************************************************************************)
Leaves == {IntV(1), IntV(2), ListV(<<1>>)}
TopKeys == {"a", "b"}
NestedKeys == {"b", "c"}

\* every dict with keys among K and values among V
DictsOver(K, V) == UNION { [D -> V] : D \in SUBSET K }

InnerLeaves == {IntV(1), IntV(2)}
InnerTrees == DictsOver(NestedKeys, InnerLeaves)
Trees == DictsOver(TopKeys, Leaves \cup { DictV(d) : d \in InnerTrees })

\* build the tree as fresh objects on the heap: the nested dicts first
RECURSIVE NewDictLoop(_, _, _, _)
RECURSIVE NewDict(_, _)
NewDictLoop(h, tree, items, obj) ==
    IF items = {}
    THEN [h |-> Append(h, obj), r |-> Len(h) + 1]
    ELSE LET key == CHOOSE k \in items : TRUE
         IN  IF tree[key].t = "dict"
             THEN LET sub == NewDict(h, tree[key].v)
                  IN  NewDictLoop(sub.h, tree, items \ {key}, DictSet(obj, key, DictV(sub.r)))
             ELSE NewDictLoop(h, tree, items \ {key}, DictSet(obj, key, tree[key]))

NewDict(h, tree) == NewDictLoop(h, tree, DOMAIN tree, EmptyDict)

InitMerge ==
    /\ \E b \in Trees, u \in Trees :
          LET hb == NewDict(<<>>, b)
              hu == NewDict(hb.h, u)
          IN  /\ heap = hu.h
              /\ merge_base = hb.r
              /\ merge_updates = hu.r
    /\ merge_result = 0
    /\ merge_pre = heap
    /\ AllocIdle
    /\ BatchIdle
    /\ ExtIdle

\* merged = _deep_merge(existing, updates)
CallDeepMerge ==
    /\ merge_result = 0
    /\ LET m == DeepMerge(heap, merge_base, merge_updates)
       IN  /\ heap' = m.h
           /\ merge_result' = m.r
    /\ UNCHANGED <<merge_base, merge_updates, merge_pre>>
    /\ UNCHANGED <<allocVars, batchVars>>
    /\ UNCHANGED extVars

NextMerge == CallDeepMerge

SpecMerge == InitMerge /\ [][NextMerge]_vars

(***************************************************************************)
(* Allocator properties                                                    *)
(***************************************************************************)
\* ascending by sort key and ascending by position (ties allowed in both)
DualOrdered(s) ==
    \A i \in 1..(Len(s) - 1) : s[i][1] <= s[i + 1][1] /\ s[i][2] <= s[i + 1][2]

\* every value the allocator halved so far was even: the fixed point is exact
PositionsExact ==
    \A n \in 1..Len(alloc_log) :
        LET e == alloc_log[n]
            b == e.before
        IN  /\ (Len(b) > 0 /\ e.idx = 0 /\ b[1][2] > 0) => b[1][2] % 2 = 0
            /\ (Len(b) > 0 /\ e.idx > 0 /\ e.idx < Len(b)) =>
                   (b[e.idx][2] + b[e.idx + 1][2]) % 2 = 0

\* C1: if the bucket's existing list was ascending by key and by position,
\* the working list is still ascending by key and by position after every
\* insertion of (newKey, newPos) at the leftmost insertion index.
C1_DualOrderPreserved ==
    DualOrdered(alloc_init) => DualOrdered(existing_sorted)

\* C2: an allocation at insertion index 0 of a non-empty list returns half
\* of the first position when that is > 0 and -1000.0 otherwise, and the
\* returned position is strictly less than the first existing position.
C2_HeadInsertion ==
    \A n \in 1..Len(alloc_log) :
        LET e == alloc_log[n]
            first_pos == e.before[1][2]
        IN  (Len(e.before) > 0 /\ e.idx = 0) =>
                /\ e.pos = (IF first_pos > 0 THEN Half(first_pos) ELSE Pos(-1000))
                /\ e.pos < first_pos

\* C3: starting from an empty working list, when the keys of the successive
\* allocations are distinct and increasing, the returned positions are
\* strictly increasing.
LogKeysIncreasing ==
    \A n \in 1..(Len(alloc_log) - 1) : alloc_log[n].key < alloc_log[n + 1].key

C3_OrderInvariant ==
    (alloc_init = <<>> /\ LogKeysIncreasing) =>
        \A n \in 1..(Len(alloc_log) - 1) : alloc_log[n].pos < alloc_log[n + 1].pos

C3_Witness ==
    /\ alloc_init = <<>>
    /\ LogKeysIncreasing
    /\ Len(alloc_log) = 3
    /\ alloc_log[3].pos = Pos(3000)

(***************************************************************************)
(* Deep-merge properties                                                   *)
(***************************************************************************)
\* the merge the specification describes, on values: the union of the keys;
\* under a key of the partial the recursive merge when both values are
\* mappings, and the partial's value otherwise
RECURSIVE MergedValue(_, _)
MergedValue(b, u) ==
    [k \in (DOMAIN b) \cup (DOMAIN u) |->
        IF k \notin DOMAIN u THEN b[k]
        ELSE IF k \in DOMAIN b /\ b[k].t = "dict" /\ u[k].t = "dict"
             THEN DictV(MergedValue(b[k].v, u[k].v))
             ELSE u[k]]

BaseBefore == Deep(merge_pre, merge_base)
UpdatesBefore == Deep(merge_pre, merge_updates)
ResultValue == Deep(heap, merge_result)

ExampleNestedBase == [k \in {"a"} |-> DictV([j \in {"b"} |-> IntV(1)])]
ExampleNestedPartial == [k \in {"a"} |-> DictV([j \in {"c"} |-> IntV(2)])]
ExampleNestedResult ==
    [k \in {"a"} |-> DictV([j \in {"b", "c"} |-> IF j = "b" THEN IntV(1) ELSE IntV(2)])]
ExampleScalarBase == [k \in {"a"} |-> IntV(1)]
ExampleScalarPartial == [k \in {"a"} |-> DictV([j \in {"b"} |-> IntV(2)])]

\* C9: the merged mapping has the union of the keys of base and partial;
\* under each key of the partial it holds the recursive merge when both
\* values are mappings and the partial's value otherwise (a mapping replaces
\* a scalar, a scalar or list replaces a mapping, lists are not joined);
\* {a:{b:1}}+{a:{c:2}} = {a:{b:1,c:2}} and {a:1}+{a:{b:2}} = {a:{b:2}}.
C9_DeepMergeResult ==
    merge_result # 0 =>
        /\ ResultValue = MergedValue(BaseBefore, UpdatesBefore)
        /\ DOMAIN ResultValue = (DOMAIN BaseBefore) \cup (DOMAIN UpdatesBefore)
        /\ (BaseBefore = ExampleNestedBase /\ UpdatesBefore = ExampleNestedPartial)
               => ResultValue = ExampleNestedResult
        /\ (BaseBefore = ExampleScalarBase /\ UpdatesBefore = ExampleScalarPartial)
               => ResultValue = ExampleScalarPartial

C9_Witness ==
    /\ merge_result # 0
    /\ BaseBefore = ExampleNestedBase
    /\ UpdatesBefore = ExampleNestedPartial
    /\ ResultValue = ExampleNestedResult

\* the keys of base that the partial does not hold at the same path are in
\* the result with their value; with strict = TRUE this is asked only along
\* paths where base and partial both hold mappings, with strict = FALSE also
\* beneath a base mapping that the partial replaces by a non-mapping
RECURSIVE KeysKept(_, _, _, _)
KeysKept(b, u, r, strict) ==
    \A k \in DOMAIN b :
        IF k \notin DOMAIN u
        THEN k \in DOMAIN r /\ r[k] = b[k]
        ELSE IF b[k].t = "dict" /\ u[k].t = "dict"
        THEN k \in DOMAIN r /\ r[k].t = "dict" /\ KeysKept(b[k].v, u[k].v, r[k].v, strict)
        ELSE IF b[k].t = "dict" /\ ~strict
        THEN \/ DOMAIN b[k].v = {}
             \/ /\ k \in DOMAIN r
                /\ r[k].t = "dict"
                /\ KeysKept(b[k].v, EmptyDict, r[k].v, strict)
        ELSE TRUE

ArgumentsUnchanged ==
    /\ Deep(heap, merge_base) = BaseBefore
    /\ Deep(heap, merge_updates) = UpdatesBefore

\* C10 as stated: the call leaves base and partial equal to what they were at
\* every depth, and every key of the base that the partial does not hold at
\* the same path is in the result with its original value.
C10_AsStated ==
    merge_result # 0 =>
        /\ ArgumentsUnchanged
        /\ KeysKept(BaseBefore, UpdatesBefore, ResultValue, FALSE)

\* C10 amended: the call leaves base and partial equal to what they were at
\* every depth, and every key of the base that the partial does not hold is
\* in the result with its original value, at every path along which base
\* and partial both hold mappings (a base mapping that the partial replaces
\* by a scalar or a list is gone with all its keys).
C10_FrameAmended ==
    merge_result # 0 =>
        /\ ArgumentsUnchanged
        /\ KeysKept(BaseBefore, UpdatesBefore, ResultValue, TRUE)

C10_Witness ==
    /\ merge_result # 0
    /\ BaseBefore = [k \in {"a", "b"} |->
                        IF k = "a" THEN DictV([j \in {"b", "c"} |-> IntV(1)]) ELSE IntV(1)]
    /\ UpdatesBefore = [k \in {"a"} |-> DictV([j \in {"c"} |-> IntV(2)])]
    /\ ResultValue["b"] = IntV(1)
    /\ ResultValue["a"].v["b"] = IntV(1)

(***************************************************************************)
(* Batch properties                                                        *)
(***************************************************************************)
CallsOf(op) == { c \in 1..Len(calls) : calls[c].op = op }
ErrorsOf(kind) == { e \in 1..Len(result.errors) : result.errors[e].kind = kind }

Terminated == pc \in {"done", "raised"}

\* the ids of the tasks the report lists
CreatedIds == { created_tasks[k].id : k \in 1..Len(created_tasks) }

\* the input of a created task, with the defaults of the config applied
InputOf(ct) == tasks[ct.idx]

\* the input of a created task as the caller wrote it
GivenInputOf(ct) == tasks_in[ct.idx]

\* the blocked_by, blocks and subtask_of entries of an input, as <<kind, ref>>
RelationEntries(t) ==
    [j \in 1..Len(t.blocked_by) |-> <<"blocked", t.blocked_by[j]>>]
    \o [j \in 1..Len(t.blocks) |-> <<"blocking", t.blocks[j]>>]
    \o (IF t.subtask_of # "" THEN <<<<"parenttask", t.subtask_of>>>> ELSE <<>>)

\* every input was attempted once for creation, in input order
AllCreatesAttempted ==
    /\ Cardinality(CallsOf("create_task")) = Len(tasks)
    /\ \A c, d \in CallsOf("create_task") : c < d => calls[c].arg < calls[d].arg

\* every label of a created task was attached, or reported as not found
LabelsProcessed(ct) ==
    \A j \in 1..Len(InputOf(ct).labels) :
        LET name == InputOf(ct).labels[j]
        IN  IF name \in DOMAIN label_map
            THEN \E c \in CallsOf("add_label") :
                    /\ calls[c].task = ct.id
                    /\ calls[c].name = name
                    /\ calls[c].arg = label_map[name]
            ELSE \E e \in ErrorsOf("label_not_found") :
                    /\ result.errors[e].task = ct.id
                    /\ result.errors[e].name = name

\* every relation entry of a created task was sent, or reported as unknown
RelationsProcessed(ct) ==
    LET entries == RelationEntries(InputOf(ct))
    IN  \A j \in 1..Len(entries) :
            IF entries[j][2] \in DOMAIN ref_map
            THEN \E c \in CallsOf("create_relation") :
                    /\ calls[c].task = ct.id
                    /\ calls[c].name = entries[j][1]
                    /\ calls[c].arg = ref_map[entries[j][2]]
            ELSE \E e \in ErrorsOf("unknown_ref") :
                    /\ result.errors[e].task = ct.id
                    /\ result.errors[e].name = entries[j][2]

\* a created task with a resolved bucket was put into it
PlacementProcessed(ct) ==
    LET bucket_name == InputOf(ct).bucket
    IN  (view_id # 0 /\ bucket_name \in DOMAIN bucket_map) =>
            \E c \in CallsOf("set_bucket") :
                /\ calls[c].task = ct.id
                /\ calls[c].arg = bucket_map[bucket_name]

\* a created task of a bucket that is sorted got a position, unless the
\* members of the bucket could not be fetched
SortProcessed(ct) ==
    LET bucket_name == InputOf(ct).bucket
    IN  ( /\ flags.apply_sort
          /\ Truthy(project_config)
          /\ view_id # 0
          /\ bucket_name \in DOMAIN bucket_map
          /\ StrategyOf(project_config.d, bucket_name) # "manual" ) =>
            \E f \in CallsOf("get_bucket_tasks") :
                /\ calls[f].name = bucket_name
                /\ calls[f].ok =>
                      \E c \in CallsOf("set_position") : calls[c].task = ct.id

\* every loop of steps 5-9 went through all its iterations
AllPhasesAttempted ==
    /\ AllCreatesAttempted
    /\ \A k \in 1..Len(created_tasks) :
          /\ LabelsProcessed(created_tasks[k])
          /\ RelationsProcessed(created_tasks[k])
          /\ PlacementProcessed(created_tasks[k])
          /\ SortProcessed(created_tasks[k])

\* the calls whose failure is the failure of one item
PerItemOps ==
    {"create_label", "create_bucket", "create_task", "add_label", "create_relation",
     "set_bucket", "get_bucket_tasks", "set_position"}

\* a failed per-item call left exactly one entry in result["errors"]
OneErrorPerFailure ==
    \A c \in 1..Len(calls) :
        (~calls[c].ok /\ calls[c].op \in PerItemOps) =>
            /\ Cardinality({ e \in 1..Len(result.errors) : result.errors[e].call = c }) = 1
            /\ \A e \in 1..Len(result.errors) :
                  result.errors[e].call = c => result.errors[e].kind = calls[c].op

\* the call raises only when the label list cannot be fetched
RaisesOnlyOnLabelList ==
    pc = "raised" =>
        /\ calls[Len(calls)].op = "list_labels"
        /\ ~calls[Len(calls)].ok
        /\ \A c \in 1..(Len(calls) - 1) : calls[c].ok

\* the created task that owns a ref: the last one created that declares it
Declares(ref) == { k \in 1..Len(created_tasks) : InputOf(created_tasks[k]).ref = ref }
RefOwner(ref) ==
    created_tasks[CHOOSE k \in Declares(ref) : \A m \in Declares(ref) : m <= k].id

\* the entries of a created task that name the ref
EntriesNaming(ct, ref) ==
    LET entries == RelationEntries(InputOf(ct))
    IN  { j \in 1..Len(entries) : entries[j][2] = ref }

AllRefs == UNION { { RelationEntries(tasks[i])[j][2] :
                        j \in 1..Len(RelationEntries(tasks[i])) } : i \in 1..Len(tasks) }

(***************************************************************************)
(* C4.  In a batch whose inputs all name one bucket that holds no task     *)
(* before the call and is sorted by a strategy other than manual, any two  *)
(* new tasks a, b with key(a) < key(b) are sent positions with             *)
(* pos(a) < pos(b), whatever the order of the inputs: Design, due on day   *)
(* 1, gets a smaller position than the undated Build.  When no call fails  *)
(* the report counts every input as created and the blocked_by relation    *)
(* as created.                                                             *)
(***************************************************************************)
SingleBucket(b) ==
    /\ Len(tasks) > 0
    /\ \A i \in 1..Len(tasks) : tasks[i].bucket = b

InitiallyEmpty(b) ==
    \A i \in 1..Len(bucket_members) :
        (b \in DOMAIN bucket_map /\ bucket_members[i].bucket_id = bucket_map[b])
            => bucket_members[i].id >= FirstNewId

\* the position that the set_position call of a task carries
SentPosition(task_id) ==
    { calls[c].arg : c \in { d \in CallsOf("set_position") : calls[d].task = task_id } }

C4_BatchPositionsFollowKeys ==
    \A b \in {"B1", "B2"} :
        (SingleBucket(b) /\ InitiallyEmpty(b)
            /\ StrategyOf(project_config.d, b) # "manual") =>
          /\ \A m, n \in 1..Len(alloc_log) :
                /\ SentPosition(alloc_log[m].task) = {alloc_log[m].pos}
                /\ alloc_log[m].key < alloc_log[n].key => alloc_log[m].pos < alloc_log[n].pos
          /\ \A k, l \in 1..Len(created_tasks) :
                (GivenInputOf(created_tasks[k]) = Design /\ GivenInputOf(created_tasks[l]) = Build) =>
                    \A p \in SentPosition(created_tasks[k].id),
                       q \in SentPosition(created_tasks[l].id) : p < q
          /\ (pc = "done" /\ faults = 0) =>
                /\ result.created = Len(tasks)
                /\ Len(result.tasks) = Len(tasks)
                /\ \A k \in 1..Len(created_tasks) :
                      /\ RelationsProcessed(created_tasks[k])
                      /\ (flags.apply_sort /\ Truthy(project_config) /\ b \in DOMAIN bucket_map)
                            => Cardinality(SentPosition(created_tasks[k].id)) = 1
                /\ result.relations_created = Cardinality(CallsOf("create_relation"))

\* Build is listed first and gets 1000.0; Design, listed second, gets 500.0
C4_Witness ==
    /\ pc = "done" /\ faults = 0
    /\ tasks_in = <<Build, Design>>
    /\ SingleBucket("B1") /\ InitiallyEmpty("B1")
    /\ Len(alloc_log) = 2
    /\ alloc_log[1].key = SentinelDate /\ alloc_log[1].pos = Pos(1000)
    /\ alloc_log[2].key = 1 /\ alloc_log[2].pos = Pos(500)
    /\ SentPosition(created_tasks[2].id) = {Pos(500)}
    /\ result.created = 2
    /\ result.relations_created = 1

(***************************************************************************)
(* C5.  A batch create always ends, and it ends by returning the report    *)
(* unless the list of labels could not be fetched.  A failed label         *)
(* creation, bucket creation, task creation, label attachment, relation    *)
(* creation, bucket placement, bucket fetch or position set leaves exactly *)
(* one entry in the errors of the report, and the items after it in the    *)
(* same loop and all later loops are still attempted.                      *)
(***************************************************************************)
\* where the handler is: the number of the statement group, and what is
\* left of the loop it is in
StepNumber ==
    CASE pc = "idle" -> 0
      [] pc = "start" -> 1
      [] pc = "list_labels" -> 2
      [] pc = "create_labels" -> 3
      [] pc = "get_view" -> 4
      [] pc = "list_buckets" -> 5
      [] pc = "create_buckets" -> 6
      [] pc = "create_tasks" -> 7
      [] pc = "attach_labels" -> 8
      [] pc = "relations" -> 9
      [] pc = "placement" -> 10
      [] pc \in {"sort_buckets", "sort_tasks"} -> 11
      [] pc \in {"done", "raised"} -> 12

Remaining ==
    CASE pc \in {"create_labels", "create_buckets"} -> Cardinality(needed)
      [] pc \in {"create_tasks", "attach_labels", "relations", "placement"} -> Len(todo)
      [] pc = "sort_buckets" -> Len(todo) * (Len(created_tasks) + 1)
      [] pc = "sort_tasks" -> Len(todo) * (Len(created_tasks) + 1) + Len(bucket_tasks)
      [] OTHER -> 0

\* every step moves to a later statement group or shortens the current loop
Progresses ==
    \/ StepNumber' > StepNumber
    \/ StepNumber' = StepNumber /\ Remaining' < Remaining

C5_BatchAlwaysReports ==
    /\ [](OneErrorPerFailure /\ RaisesOnlyOnLabelList)
    /\ [](pc = "done" => AllPhasesAttempted)
    /\ [](Remaining >= 0 /\ (~Terminated => ENABLED NextBatch))
    /\ [][Progresses]_vars

\* a returned report after two failures in different loops: a task that was
\* not created and, after it, a task created whose label was not attached
C5_Witness ==
    /\ pc = "done"
    /\ \E c \in CallsOf("create_task"), d \in CallsOf("add_label") :
          ~calls[c].ok /\ ~calls[d].ok /\ c < d
    /\ Len(result.errors) >= 2
    /\ result.created >= 1

(***************************************************************************)
(* C6.  No relation is sent before every input of the batch has been       *)
(* attempted for creation, so a ref declared by a task listed later        *)
(* resolves like one declared earlier: for the inputs B (blocked_by a)     *)
(* and A (ref a), in either order, exactly one "blocked" relation from B   *)
(* to A is created.                                                        *)
(***************************************************************************)
TaskA == Task(1, 0, 0, <<>>, "", "a", <<>>, <<>>, "")
TaskB == Task(TitleB, 0, 0, <<>>, "", "b", <<"a">>, <<>>, "")

IdOfInput(t) ==
    created_tasks[CHOOSE k \in 1..Len(created_tasks) : GivenInputOf(created_tasks[k]) = t].id

C6_ForwardReferences ==
    /\ \A c \in CallsOf("create_relation") :
          Cardinality({ d \in CallsOf("create_task") : d < c }) = Len(tasks)
    /\ pc = "done" =>
          \A k \in 1..Len(created_tasks) :
              LET ct == created_tasks[k]
                  entries == RelationEntries(InputOf(ct))
              IN  \A j \in 1..Len(entries) :
                      Declares(entries[j][2]) # {} =>
                          \E c \in CallsOf("create_relation") :
                              /\ calls[c].task = ct.id
                              /\ calls[c].name = entries[j][1]
                              /\ calls[c].arg = RefOwner(entries[j][2])
    /\ (pc = "done" /\ faults = 0 /\ tasks_in \in { <<TaskB, TaskA>>, <<TaskA, TaskB>> }) =>
          /\ result.relations_created = 1
          /\ \A c \in CallsOf("create_relation") :
                /\ calls[c].task = IdOfInput(TaskB)
                /\ calls[c].name = "blocked"
                /\ calls[c].arg = IdOfInput(TaskA)
          /\ Cardinality(CallsOf("create_relation")) = 1

\* B is listed before the task that declares the ref it names
C6_Witness ==
    /\ pc = "done" /\ faults = 0
    /\ tasks_in = <<TaskB, TaskA>>
    /\ result.relations_created = 1
    /\ \E c \in CallsOf("create_relation") :
          /\ calls[c].task = created_tasks[1].id
          /\ calls[c].arg = created_tasks[2].id

(***************************************************************************)
(* C7.  The refs that resolve are those declared by the tasks that were    *)
(* created.  Each blocked_by, blocks or subtask_of entry naming another    *)
(* ref leaves exactly one error entry and sends no relation, and           *)
(* relations_created counts only the relations sent with success; the      *)
(* task with such an entry stays in the report and goes through placement  *)
(* and sort.                                                               *)
(***************************************************************************)
C7_UnknownRef ==
    /\ DOMAIN ref_map = { InputOf(created_tasks[k]).ref : k \in 1..Len(created_tasks) } \ {""}
    /\ pc = "done" =>
          /\ \A k \in 1..Len(created_tasks), ref \in AllRefs :
                LET ct == created_tasks[k]
                    sent == { c \in CallsOf("create_relation") : calls[c].task = ct.id }
                    entries == RelationEntries(InputOf(ct))
                IN  /\ Declares(ref) = {} =>
                          Cardinality({ e \in ErrorsOf("unknown_ref") :
                                          /\ result.errors[e].task = ct.id
                                          /\ result.errors[e].name = ref })
                              = Cardinality(EntriesNaming(ct, ref))
                    /\ Cardinality(sent)
                          = Cardinality({ j \in 1..Len(entries) : Declares(entries[j][2]) # {} })
                    /\ \E r \in 1..Len(result.tasks) : result.tasks[r].id = ct.id
                    /\ PlacementProcessed(ct)
                    /\ SortProcessed(ct)
          /\ result.relations_created
                = Cardinality({ c \in CallsOf("create_relation") : calls[c].ok })

\* Build names the ref of Design, whose creation failed: one error, no
\* relation, and Build is still put into its bucket and given a position
C7_Witness ==
    /\ pc = "done"
    /\ Len(created_tasks) = 1
    /\ GivenInputOf(created_tasks[1]) = Build
    /\ Declares("d") = {}
    /\ Cardinality(ErrorsOf("unknown_ref")) = 1
    /\ CallsOf("create_relation") = {}
    /\ result.relations_created = 0
    /\ \E c \in CallsOf("set_bucket") : calls[c].task = created_tasks[1].id /\ calls[c].ok
    /\ \E c \in CallsOf("set_position") : calls[c].task = created_tasks[1].id /\ calls[c].ok

(***************************************************************************)
(* C8.  When the kanban view cannot be obtained, one error is recorded,    *)
(* every input is still attempted for creation, labels and relations are   *)
(* still processed, and no call sets the bucket or the position of any     *)
(* task.                                                                   *)
(***************************************************************************)
ViewFailed ==
    \E c \in CallsOf("get_kanban_view") \cup CallsOf("list_buckets") : ~calls[c].ok

C8_KanbanViewFailure ==
    ViewFailed =>
        /\ Cardinality(ErrorsOf("kanban_view")) = 1
        /\ CallsOf("set_bucket") = {}
        /\ CallsOf("set_position") = {}
        /\ CallsOf("create_bucket") = {}
        /\ pc = "done" =>
              /\ AllCreatesAttempted
              /\ \A k \in 1..Len(created_tasks) :
                    /\ LabelsProcessed(created_tasks[k])
                    /\ RelationsProcessed(created_tasks[k])

\* the view failed, and two tasks naming buckets were created, labelled and
\* related all the same
C8_Witness ==
    /\ pc = "done"
    /\ \E c \in CallsOf("get_kanban_view") : ~calls[c].ok
    /\ result.created = 2
    /\ \E k \in 1..Len(tasks) : tasks[k].bucket # ""
    /\ CallsOf("add_label") # {}
    /\ CallsOf("create_relation") # {}
    /\ CallsOf("set_bucket") = {}

(***************************************************************************)
(* The config store (server.py 44-69 and 1848-1881).                       *)
(* The config directory is a function from the paths that exist to their   *)
(* data.  The data of a YAML file is the sequence of its chunks: the       *)
(* "projects:" line, then one chunk per project entry; a file that is      *)
(* being written holds a prefix of them.  A document is a function from    *)
(* project ids to config trees.                                            *)
(***************************************************************************)
ConfigFile == "config.yaml"

\* a writer whose temporary file is the target itself
TempPathIsTarget(w) == ConfigFile

\* tempfile.mkstemp(dir=CONFIG_DIR, suffix=".yaml"): a name no one else has
TempPath(w) == IF w = 1 THEN "tmp1.yaml" ELSE "tmp2.yaml"

EmptyDoc == EmptyDict
Header == [key |-> 0, value |-> EmptyDict]

Remove(d, key) == [k \in (DOMAIN d) \ {key} |-> d[k]]

\* yaml.dump(config, f, ...): the entries of config["projects"] one by one
RECURSIVE EntriesFrom(_, _)
EntriesFrom(doc, ids) ==
    IF ids = {} THEN <<>>
    ELSE LET k == CHOOSE i \in ids : \A j \in ids : i <= j
         IN  <<[key |-> k, value |-> doc[k]]>> \o EntriesFrom(doc, ids \ {k})

Serialize(doc) == <<Header>> \o EntriesFrom(doc, DOMAIN doc)

\* yaml.safe_load(f) or {}, and config["projects"] = {} when it is missing:
\* the entries that the data holds, an empty file being an empty document
Parse(data) ==
    LET at == { i \in 2..Len(data) : TRUE }
    IN  [k \in { data[i].key : i \in at } |->
            data[CHOOSE i \in at : data[i].key = k /\ \A j \in at : data[j].key = k => j <= i].value]

\* _load_config (44-55)
LoadConfig(fs) == IF ConfigFile \in DOMAIN fs THEN Parse(fs[ConfigFile]) ELSE EmptyDoc

\* an os.replace that adds the entries of the source to those of the target
ReplaceMerging(fs, src, dst) ==
    Remove(DictSet(fs, dst,
               IF dst \in DOMAIN fs
               THEN Serialize([k \in DOMAIN Parse(fs[dst]) \cup DOMAIN Parse(fs[src]) |->
                        IF k \in DOMAIN Parse(fs[src]) THEN Parse(fs[src])[k]
                        ELSE Parse(fs[dst])[k]])
               ELSE fs[src]), src)

\* os.replace(temp_path, CONFIG_FILE): the target gets the data of the
\* source in one step, and the source path is gone
Replace(fs, src, dst) == Remove(DictSet(fs, dst, fs[src]), src)

\* _deep_merge(existing, updates) on the objects that the loaded document
\* and the argument are
MergeTrees(existing, updates) ==
    LET hb == NewDict(<<>>, existing)
        hu == NewDict(hb.h, updates)
        m == DeepMerge(hu.h, hb.r, hu.r)
    IN  Deep(m.h, m.r)

\* a delete that saves whether or not the entry was there
DeletedAlways(config, p) == TRUE

\* deleted = str(project_id) in config["projects"]
Deleted(config, p) == p \in DOMAIN config

\* a set or update that keeps the entry of its project only
NewConfigAlone(op, config) ==
    CASE op.kind = "set" -> [k \in {op.p} |-> op.arg]
      [] op.kind = "update" ->
            [k \in {op.p} |-> MergeTrees(Get(config, op.p, EmptyDict), op.arg)]
      [] op.kind = "delete" -> Remove(config, op.p)
      [] OTHER -> config

\* the document that an operation saves, from the document it loaded
NewConfig(op, config) ==
    CASE op.kind = "set" -> DictSet(config, op.p, op.arg)
      [] op.kind = "update" ->
            DictSet(config, op.p, MergeTrees(Get(config, op.p, EmptyDict), op.arg))
      [] op.kind = "delete" -> Remove(config, op.p)
      [] OTHER -> config

\* whether the operation gets as far as _save_config
Saves(op, config) ==
    \/ op.kind \in {"set", "update"}
    \/ op.kind = "delete" /\ Deleted(config, op.p)

\* the created / deleted field of what the operation returns
FlagOf(op, config) ==
    CASE op.kind = "set" -> op.p \notin DOMAIN config
      [] op.kind = "delete" -> Deleted(config, op.p)
      [] OTHER -> FALSE

ProjectIds == {1, 2}
TreeA == [k \in {"a"} |-> IntV(1)]
TreeNested == [k \in {"a"} |-> DictV([j \in {"b"} |-> IntV(1)])]
TreePartial == [k \in {"a"} |-> DictV([j \in {"c"} |-> IntV(2)])]

ConfigOps ==
    { [kind |-> "get", p |-> p, arg |-> EmptyDict] : p \in ProjectIds }
    \cup { [kind |-> "delete", p |-> p, arg |-> EmptyDict] : p \in ProjectIds }
    \cup { [kind |-> "set", p |-> p, arg |-> t] : p \in ProjectIds, t \in {TreeA, TreeNested} }
    \cup { [kind |-> "update", p |-> p, arg |-> TreePartial] : p \in ProjectIds }

NoOp == [kind |-> "none", p |-> 0, arg |-> EmptyDict]

Writer(ops_left) ==
    [pc |-> "idle", ops_left |-> ops_left, op |-> NoOp, config |-> EmptyDoc,
     new |-> EmptyDoc, written |-> 0, disk0 |-> [path \in {} |-> <<>>]]

\* the documents on disk when the operations start; none when the file is absent
InitialDocs ==
    { EmptyDoc, [k \in {1} |-> TreeNested], [k \in {1, 2} |-> IF k = 1 THEN TreeA ELSE TreeNested] }

StoreCalled(fs, ws) ==
    /\ files = fs
    /\ writers = ws
    /\ store_log = <<>>
    /\ store_faults = 0
    /\ AllocIdle /\ MergeIdle /\ BatchIdle
    /\ TemplateIdle /\ KeysIdle /\ SortIdle /\ PlaceIdle /\ AuthIdle

\* the target file is the same in both directories: absent, or the same data
SameTarget(fs, gs) ==
    /\ (ConfigFile \in DOMAIN fs) = (ConfigFile \in DOMAIN gs)
    /\ ConfigFile \in DOMAIN fs => fs[ConfigFile] = gs[ConfigFile]

\* config["projects"].get(str(project_id)) is not None
Found(op, config) == op.p \in DOMAIN config

StoreOutcomes == IF store_faults < MaxFaults THEN {TRUE, FALSE} ELSE {TRUE}

\* the operation of writer w ends: what it returned or raised is logged
EndOp(w, outcome, saved, fs) ==
    /\ store_log' = Append(store_log,
          [w |-> w, op |-> writers[w].op, loaded |-> writers[w].config,
           new |-> writers[w].new, outcome |-> outcome, saved |-> saved,
           flag |-> FlagOf(writers[w].op, writers[w].config),
           found |-> Found(writers[w].op, writers[w].config),
           disk_before |-> LoadConfig(writers[w].disk0), disk_after |-> LoadConfig(fs),
           target_same |-> SameTarget(writers[w].disk0, fs),
           temp_left |-> TempPath(w) \in DOMAIN fs])
    /\ writers' = [writers EXCEPT ![w].pc = "idle"]

\* a caller invokes one of the four config operations
CallConfigOp ==
    \E w \in DOMAIN writers, op \in ConfigOps :
        /\ writers[w].pc = "idle"
        /\ writers[w].ops_left > 0
        /\ writers' = [writers EXCEPT ![w].pc = "load", ![w].op = op,
                                      ![w].ops_left = @ - 1,
                                      ![w].written = 0,
                                      ![w].disk0 = files]
        /\ UNCHANGED <<files, store_log, store_faults>>
        /\ UNCHANGED notStoreVars

\* config = _load_config() and the statements up to _save_config or return
ReadConfig ==
    \E w \in DOMAIN writers :
        /\ writers[w].pc = "load"
        /\ LET config == LoadConfig(files)
               op == writers[w].op
           IN  IF Saves(op, config)
               THEN /\ writers' = [writers EXCEPT ![w].pc = "mkstemp",
                                                  ![w].config = config,
                                                  ![w].new = NewConfig(op, config)]
                    /\ UNCHANGED store_log
               ELSE /\ store_log' = Append(store_log,
                          [w |-> w, op |-> op, loaded |-> config, new |-> config,
                           outcome |-> "returned", saved |-> FALSE,
                           flag |-> FlagOf(op, config),
                           found |-> Found(op, config),
                           disk_before |-> LoadConfig(writers[w].disk0),
                           disk_after |-> LoadConfig(files),
                           target_same |-> SameTarget(writers[w].disk0, files),
                           temp_left |-> FALSE])
                    /\ writers' = [writers EXCEPT ![w].pc = "idle", ![w].config = config,
                                                  ![w].new = config]
        /\ UNCHANGED <<files, store_faults>>
        /\ UNCHANGED notStoreVars

\* CONFIG_DIR.mkdir and tempfile.mkstemp (60-62), both before the try
MakeTemp ==
    \E w \in DOMAIN writers, ok \in StoreOutcomes :
        /\ writers[w].pc = "mkstemp"
        /\ IF ok
           THEN /\ files' = DictSet(files, TempPath(w), <<>>)
                /\ writers' = [writers EXCEPT ![w].pc = "write"]
                /\ UNCHANGED <<store_log, store_faults>>
           ELSE /\ EndOp(w, "raised", FALSE, files)
                /\ store_faults' = store_faults + 1
                /\ UNCHANGED files
        /\ UNCHANGED notStoreVars

\* yaml.dump into the temporary file (64-65): one more chunk reaches it
WriteTemp ==
    \E w \in DOMAIN writers, ok \in StoreOutcomes :
        /\ writers[w].pc = "write"
        /\ LET data == Serialize(writers[w].new)
               n == writers[w].written
           IN  IF ok
               THEN /\ files' = DictSet(files, TempPath(w), SubSeq(data, 1, n + 1))
                    /\ writers' = [writers EXCEPT
                          ![w].written = n + 1,
                          ![w].pc = IF n + 1 = Len(data) THEN "replace" ELSE "write"]
                    /\ UNCHANGED store_faults
               ELSE /\ writers' = [writers EXCEPT ![w].pc = "unlink"]
                    /\ store_faults' = store_faults + 1
                    /\ UNCHANGED files
        /\ UNCHANGED store_log
        /\ UNCHANGED notStoreVars

\* os.replace(temp_path, CONFIG_FILE) (66), and the return of the operation
ReplaceTarget ==
    \E w \in DOMAIN writers, ok \in StoreOutcomes :
        /\ writers[w].pc = "replace"
        /\ IF ok
           THEN /\ files' = Replace(files, TempPath(w), ConfigFile)
                /\ EndOp(w, "returned", TRUE, files')
                /\ UNCHANGED store_faults
           ELSE /\ writers' = [writers EXCEPT ![w].pc = "unlink"]
                /\ store_faults' = store_faults + 1
                /\ UNCHANGED <<files, store_log>>
        /\ UNCHANGED notStoreVars

\* except Exception: os.unlink(temp_path); raise (67-69)
UnlinkTemp ==
    \E w \in DOMAIN writers :
        /\ writers[w].pc = "unlink"
        /\ files' = Remove(files, TempPath(w))
        /\ EndOp(w, "raised", FALSE, files')
        /\ UNCHANGED store_faults
        /\ UNCHANGED notStoreVars

NextStore ==
    \/ CallConfigOp
    \/ ReadConfig
    \/ MakeTemp
    \/ WriteTemp
    \/ ReplaceTarget
    \/ UnlinkTemp

\* the file as a complete document, or no file yet
InitialFiles ==
    { [path \in {ConfigFile} |-> Serialize(doc)] : doc \in InitialDocs }
    \cup { [path \in {} |-> <<>>] }

\* two callers, one operation each, their steps interleaved
InitStore ==
    \E fs \in InitialFiles : StoreCalled(fs, <<Writer(1), Writer(1)>>)

SpecStore == InitStore /\ [][NextStore]_vars

\* one caller making MaxOps operations one after the other
InitStoreSeq ==
    \E fs \in InitialFiles : StoreCalled(fs, <<Writer(MaxOps)>>)

SpecStoreSeq == InitStoreSeq /\ [][NextStore]_vars

(***************************************************************************)
(* Config store properties                                                 *)
(***************************************************************************)
InSave(w) == writers[w].pc \in {"mkstemp", "write", "replace", "unlink"}

\* the other caller has not made a call yet
Alone(w) ==
    \A v \in DOMAIN writers :
        v # w => /\ writers[v].pc = "idle"
                 /\ \A i \in 1..Len(store_log) : store_log[i].w # v

\* the documents that were ever complete: on disk at the start, or computed
\* by an operation that saves
CompleteData ==
    { Serialize(d) : d \in InitialDocs }
    \cup { Serialize(writers[w].new) : w \in { v \in DOMAIN writers : InSave(v) } }
    \cup { Serialize(store_log[i].new) : i \in 1..Len(store_log) }

(***************************************************************************)
(* C11.  Atomic persistence.  In every state of a save, failures of        *)
(* creating, writing or renaming the temporary file included, the target   *)
(* file holds a complete document: the one it held before the save or the  *)
(* new one, never a part of one.  When the save fails the temporary file   *)
(* is gone, the target is as it was, and the caller gets the error.        *)
(***************************************************************************)
C11_AtomicPersistence ==
    /\ ConfigFile \in DOMAIN files => files[ConfigFile] \in CompleteData
    /\ \A w \in DOMAIN writers :
          (InSave(w) /\ Alone(w)) => SameTarget(writers[w].disk0, files)
    /\ \A i \in 1..Len(store_log) :
          /\ store_log[i].outcome = "raised" =>
                /\ ~store_log[i].temp_left
                /\ ~store_log[i].saved
                /\ (\A j \in 1..i : store_log[j].w = store_log[i].w) => store_log[i].target_same
          /\ (store_log[i].saved /\ \A j \in 1..i : store_log[j].w = store_log[i].w) =>
                store_log[i].disk_after = store_log[i].new
    /\ store_faults = Cardinality({ i \in 1..Len(store_log) : store_log[i].outcome = "raised" })
                      + Cardinality({ w \in DOMAIN writers : writers[w].pc = "unlink" })

\* a write failed after a part of the document had reached the temporary
\* file: the file is gone and the target is what it was
C11_Witness ==
    \E i \in 1..Len(store_log) :
        LET w == store_log[i].w
        IN  /\ i = Len(store_log)
            /\ store_log[i].outcome = "raised"
            /\ writers[w].written >= 1
            /\ writers[w].written < Len(Serialize(writers[w].new))
            /\ TempPath(w) \notin DOMAIN files
            /\ ConfigFile \in DOMAIN files
            /\ files[ConfigFile] = Serialize(store_log[i].loaded)
            /\ store_log[i].new # store_log[i].loaded

\* what an operation is to store, given the document it loaded
ExpectedDoc(op, loaded) ==
    CASE op.kind = "set" ->
            [k \in (DOMAIN loaded) \cup {op.p} |-> IF k = op.p THEN op.arg ELSE loaded[k]]
      [] op.kind = "update" ->
            [k \in (DOMAIN loaded) \cup {op.p} |->
                IF k = op.p
                THEN MergedValue(IF op.p \in DOMAIN loaded THEN loaded[op.p] ELSE EmptyDict,
                                 op.arg)
                ELSE loaded[k]]
      [] op.kind = "delete" -> [k \in (DOMAIN loaded) \ {op.p} |-> loaded[k]]
      [] OTHER -> loaded

AllEnded == \A w \in DOMAIN writers : writers[w].pc = "idle" /\ writers[w].ops_left = 0

SavedEntries == { i \in 1..Len(store_log) : store_log[i].saved }

(***************************************************************************)
(* C12.  Concurrent writers: last writer wins on the whole document.       *)
(* When two set / update / delete operations interleave their load and     *)
(* save steps, the document stored after both have ended is exactly the    *)
(* one that the writer who saved last computed from its own earlier load;  *)
(* a change of the other writer to another project id can be lost, and no  *)
(* interleaving stores a mix of entries that neither writer computed.      *)
(***************************************************************************)
C12_LastWriterWins ==
    (AllEnded /\ SavedEntries # {}) =>
        LET last == CHOOSE i \in SavedEntries : \A j \in SavedEntries : j <= i
        IN  /\ LoadConfig(files) = ExpectedDoc(store_log[last].op, store_log[last].loaded)
            /\ files[ConfigFile] = Serialize(ExpectedDoc(store_log[last].op, store_log[last].loaded))
            /\ DOMAIN files = {ConfigFile}

\* both writers loaded the empty document before either saved: the entry
\* that the first saver set for its project is not in the stored document
C12_Witness ==
    /\ AllEnded
    /\ Len(store_log) = 2
    /\ store_log[1].saved /\ store_log[2].saved
    /\ store_log[1].op.kind = "set" /\ store_log[2].op.kind = "set"
    /\ store_log[1].op.p # store_log[2].op.p
    /\ store_log[1].loaded = store_log[2].loaded
    /\ store_log[1].disk_after = ExpectedDoc(store_log[1].op, store_log[1].loaded)
    /\ store_log[1].op.p \notin DOMAIN LoadConfig(files)
    /\ store_log[2].op.p \in DOMAIN LoadConfig(files)

(***************************************************************************)
(* C13.  Config delete is idempotent.  delete(p) reports deleted = true    *)
(* exactly when p had an entry before the call; after a delete(p) that     *)
(* returned, get(p) finds no config, and a second delete(p) reports        *)
(* deleted = false and does not save: the stored document is unchanged.    *)
(***************************************************************************)
IsDelete(e) == e.op.kind = "delete" /\ e.outcome = "returned"

C13_DeleteIdempotent ==
    \A i \in 1..Len(store_log) :
        IsDelete(store_log[i]) =>
            LET e == store_log[i]
            IN  /\ e.flag = (e.op.p \in DOMAIN e.disk_before)
                /\ e.op.p \notin DOMAIN e.disk_after
                /\ ~e.flag => (~e.saved /\ e.target_same)
                /\ (i < Len(store_log) /\ store_log[i + 1].op.p = e.op.p) =>
                      LET n == store_log[i + 1]
                      IN  /\ n.op.kind = "get" => ~n.found
                          /\ IsDelete(n) => (~n.flag /\ ~n.saved /\ n.target_same
                                              /\ n.disk_after = e.disk_after)

\* delete(1) removes the entry, get(1) finds nothing, delete(1) again
\* reports false and saves nothing
C13_Witness ==
    /\ Len(store_log) = 3
    /\ IsDelete(store_log[1]) /\ store_log[1].op.p = 1
    /\ store_log[1].flag /\ store_log[1].saved
    /\ store_log[2].op.kind = "get" /\ store_log[2].op.p = 1 /\ ~store_log[2].found
    /\ IsDelete(store_log[3]) /\ store_log[3].op.p = 1
    /\ ~store_log[3].flag /\ ~store_log[3].saved
    /\ 2 \in DOMAIN LoadConfig(files)

(***************************************************************************)
(* _create_from_template_impl (1896-1962).                                 *)
(* A datetime is a number of hours; what strftime writes is the rank of    *)
(* the string: the day, then the hour and the minute that the format       *)
(* spells out.  Anchors are late enough for every date to be after day 0,  *)
(* 0 being the absent date of a task input.                                *)
(***************************************************************************)
HoursPerDay == 24

DayOf(dt) == dt \div HoursPerDay

Stamp(day, hh, mm) == (day * HoursPerDay + hh) * 60 + mm

\* start_dt.strftime("%Y-%m-%dT00:00:00Z") and ("%Y-%m-%dT23:59:00Z")
FormatStartOfDay(dt) == Stamp(DayOf(dt), 0, 0)
FormatEndOfDay(dt) == Stamp(DayOf(dt), 23, 59)

\* lines 1923-1950: the task input made from one task definition
ExpandTask(anchor_dt, task_def, all_labels, bucket) ==
    LET offset_hours == Get(task_def, "offset_hours", 0)
        duration_hours == Get(task_def, "duration_hours", 1)
        start_dt == anchor_dt + offset_hours
        end_dt == start_dt + duration_hours
        start_date == FormatStartOfDay(start_dt)
        end_date == FormatEndOfDay(start_dt)
    IN  [Task(task_def.title, 0, 0, all_labels, bucket, Get(task_def, "ref", ""),
              Get(task_def, "blocked_by", <<>>), <<>>, "")
            EXCEPT !.start_date = start_date, !.end_date = end_date]

\* the state in which _create_from_template_impl is called
TemplateCalled(args, cfg, labels, buckets, members) ==
    /\ pc = "template"
    /\ tmpl_args = args
    /\ flags = DefaultFlags
    /\ tasks = <<>>
    /\ tasks_in = <<>>
    /\ stored_config = cfg
    /\ remote_labels = labels
    /\ remote_buckets = buckets
    /\ bucket_members = members
    /\ next_id = FirstNewId
    /\ faults = 0
    /\ project_config = NoConfig
    /\ label_map = EmptyDict
    /\ needed = {}
    /\ n_tried = 0
    /\ view_id = 0
    /\ n_existing = 0
    /\ bucket_map = EmptyDict
    /\ ref_map = EmptyDict
    /\ created_tasks = <<>>
    /\ todo = <<>>
    /\ bucket_tasks = <<>>
    /\ cur_bucket = ""
    /\ result = EmptyResult
    /\ calls = <<>>
    /\ AllocIdle /\ MergeIdle
    /\ StoreIdle /\ KeysIdle /\ SortIdle /\ PlaceIdle /\ AuthIdle

\* lines 1905-1960: the checks, the expansion, and the call of batch create
CreateFromTemplate ==
    /\ pc = "template"
    /\ LET templates == Get(stored_config.d, "templates", EmptyDict)
       IN  IF ~Truthy(stored_config) \/ tmpl_args.template \notin DOMAIN templates
           THEN /\ pc' = "raised"
                /\ UNCHANGED <<tasks, tasks_in, flags>>
           ELSE LET tmpl == templates[tmpl_args.template]
                    all_labels == Get(tmpl, "default_labels", <<>>) \o tmpl_args.labels
                    task_defs == Get(tmpl, "tasks", <<>>)
                    expanded == [i \in 1..Len(task_defs) |->
                                    ExpandTask(tmpl_args.anchor, task_defs[i], all_labels,
                                               tmpl_args.bucket)]
                IN  /\ tasks' = expanded
                    /\ tasks_in' = expanded
                    /\ flags' = Flags(TRUE, FALSE, TRUE, TRUE, FALSE)
                    /\ pc' = "start"
    /\ UNCHANGED <<stored_config, remote_labels, remote_buckets, bucket_members,
                   next_id, faults, localVars, calls>>
    /\ UNCHANGED <<allocVars, mergeVars, extVars>>

\* the template "T": Survey starts at the anchor and lasts the default hour,
\* Plan starts thirty hours before it, Review a day and a half after it and
\* is blocked by Survey
SurveyDef == [title |-> TitleD, ref |-> "s"]
PlanDef == [title |-> TitleB, offset_hours |-> -30, duration_hours |-> 10]
ReviewDef == [title |-> TitleC, offset_hours |-> 36, duration_hours |-> 30,
              blocked_by |-> <<"s">>]

TemplateConfigs ==
    {NoConfig}
    \cup { SomeConfig([sort_strategy |-> [default |-> "start_date"],
                       templates |-> [T |-> [default_labels |-> <<"L1">>, tasks |-> defs]]]) :
            defs \in { <<SurveyDef>>, <<SurveyDef, PlanDef>>, <<ReviewDef, SurveyDef>> } }

\* anchors on day 3: at midnight, in the afternoon, an hour before midnight
Anchors == { 3 * HoursPerDay, 3 * HoursPerDay + 15, 3 * HoursPerDay + 23 }

InitTemplate ==
    \E cfg \in TemplateConfigs, anchor \in Anchors, name \in {"T", "U"},
       labels \in { <<>>, <<"L2">> }, bucket \in {"", "B1"} :
        TemplateCalled([template |-> name, anchor |-> anchor, labels |-> labels,
                        bucket |-> bucket],
                       cfg, [L1 |-> 1], <<BucketB1>>,
                       <<Member(21, 11, TitleC, 2, 1, Pos(1000))>>)

\* batch create is called with create_missing_buckets=False
NextTemplate ==
    \/ CreateFromTemplate
    \/ StartBatch
    \/ ListLabels
    \/ CreateLabel
    \/ GetKanbanView
    \/ ListBuckets
    \/ CreateTask
    \/ AttachLabel
    \/ CreateRelation
    \/ PlaceTask
    \/ FetchBucket
    \/ SetPosition

SpecTemplate == InitTemplate /\ [][NextTemplate]_vars

\* the definition from which the i-th task of the batch was made
TaskDefOf(i) == stored_config.d.templates[tmpl_args.template].tasks[i]

Expanded == pc \notin {"template", "raised"}

(***************************************************************************)
(* C14.  Template expansion dates.  For every task definition the start    *)
(* date of the expanded task is 00:00:00 of the day of anchor +            *)
(* offset_hours, and its end date is 23:59:00 of the day of anchor +       *)
(* offset_hours + duration_hours, so a task whose duration crosses         *)
(* midnight ends on a later day than it starts.                            *)
(***************************************************************************)
C14_TemplateDates ==
    Expanded =>
        \A i \in 1..Len(tasks_in) :
            LET offset == Get(TaskDefOf(i), "offset_hours", 0)
                duration == Get(TaskDefOf(i), "duration_hours", 1)
                start == tmpl_args.anchor + offset
            IN  /\ tasks_in[i].start_date = Stamp(start \div HoursPerDay, 0, 0)
                /\ tasks_in[i].end_date = Stamp((start + duration) \div HoursPerDay, 23, 59)

\* what the code does: both dates are written from the start
C14_EndOnStartDay ==
    Expanded =>
        \A i \in 1..Len(tasks_in) :
            LET start == tmpl_args.anchor + Get(TaskDefOf(i), "offset_hours", 0)
            IN  /\ tasks_in[i].start_date = Stamp(start \div HoursPerDay, 0, 0)
                /\ tasks_in[i].end_date = Stamp(start \div HoursPerDay, 23, 59)

\* a stored config is in use: use_project_config is set and one is stored
ConfigInUse == flags.use_project_config /\ stored_config.some

DefaultsApplied == pc \notin {"template", "start"}

(***************************************************************************)
(* C15.  Defaults application.  When a stored project config is in use, an *)
(* input without labels receives the config's default_labels if and only   *)
(* if apply_default_labels is set, and an input without a bucket receives  *)
(* default_bucket whatever apply_default_labels is; an input that carries  *)
(* labels or a bucket keeps them, every other field is left as given, and  *)
(* without use_project_config or without a stored config the inputs are    *)
(* left as given.                                                          *)
(***************************************************************************)
C15_DefaultsApplication ==
    DefaultsApplied =>
        /\ Len(tasks) = Len(tasks_in)
        /\ \A i \in 1..Len(tasks_in) :
            LET given == tasks_in[i]
                used == tasks[i]
                default_labels == Get(stored_config.d, "default_labels", <<>>)
                default_bucket == Get(stored_config.d, "default_bucket", "")
            IN  /\ ~ConfigInUse => used = given
                /\ ConfigInUse =>
                    /\ given.labels # <<>> => used.labels = given.labels
                    /\ given.labels = <<>> /\ flags.apply_default_labels =>
                           used.labels = default_labels
                    /\ given.labels = <<>> /\ ~flags.apply_default_labels =>
                           used.labels = <<>>
                    /\ given.bucket # "" => used.bucket = given.bucket
                    /\ given.bucket = "" => used.bucket = default_bucket
                    /\ [used EXCEPT !.labels = <<>>, !.bucket = ""]
                           = [given EXCEPT !.labels = <<>>, !.bucket = ""]

\* one call in which an input without labels got the default labels, an input
\* without a bucket got the default bucket, and both kept what they carried
C15_Witness ==
    /\ DefaultsApplied
    /\ ConfigInUse
    /\ flags.apply_default_labels
    /\ \E i, j \in 1..Len(tasks_in) :
        /\ tasks_in[i].labels = <<>> /\ tasks[i].labels = <<"L3">>
        /\ tasks_in[i].bucket = "B2" /\ tasks[i].bucket = "B2"
        /\ tasks_in[j].bucket = "" /\ tasks[j].bucket = "B1"
        /\ tasks_in[j].labels = <<"L1", "L2">> /\ tasks[j].labels = <<"L1", "L2">>

\* the refs an input lists under the field that is sent as the kind
RefsOfKind(t, kind) ==
    CASE kind = "blocked" -> t.blocked_by
      [] kind = "blocking" -> t.blocks
      [] kind = "parenttask" -> IF t.subtask_of # "" THEN <<t.subtask_of>> ELSE <<>>

RelationKinds == {"blocked", "blocking", "parenttask"}

\* the relation-create calls (task_id, kind, other_id)
RelationCalls(task_id, kind, other_id) ==
    { c \in CallsOf("create_relation") :
        calls[c].task = task_id /\ calls[c].name = kind /\ calls[c].arg = other_id }

\* the entries of a kind of an input whose ref resolved to other_id
ResolvedEntries(t, kind, other_id) ==
    { j \in 1..Len(RefsOfKind(t, kind)) :
        /\ RefsOfKind(t, kind)[j] \in DOMAIN ref_map
        /\ ref_map[RefsOfKind(t, kind)[j]] = other_id }

(***************************************************************************)
(* C16.  Relation wiring.  For a created task T, each blocked_by entry     *)
(* whose ref resolved to R produced exactly one relation-create call       *)
(* (T, "blocked", R), each resolved blocks entry exactly one call          *)
(* (T, "blocking", R), and a resolved subtask_of exactly one call          *)
(* (T, "parenttask", P); no other relation call is made, at any point of   *)
(* the run.                                                                *)
(***************************************************************************)
C16_RelationWiring ==
    /\ \A c \in CallsOf("create_relation") :
          /\ calls[c].task \in CreatedIds
          /\ calls[c].name \in RelationKinds
          /\ calls[c].arg \in CreatedIds
    /\ \A k \in 1..Len(created_tasks), kind \in RelationKinds, other_id \in CreatedIds :
          LET ct == created_tasks[k]
              sent == Cardinality(RelationCalls(ct.id, kind, other_id))
              listed == Cardinality(ResolvedEntries(GivenInputOf(ct), kind, other_id))
          IN  /\ sent <= listed
              /\ pc = "done" => sent = listed

\* one batch that sent a relation of each kind and nothing else
C16_Witness ==
    /\ pc = "done"
    /\ Len(created_tasks) = 2
    /\ Cardinality(CallsOf("create_relation")) = 3
    /\ \A kind \in RelationKinds :
          \E k \in 1..Len(created_tasks), other_id \in CreatedIds :
              /\ Cardinality(RelationCalls(created_tasks[k].id, kind, other_id)) = 1
              /\ ResolvedEntries(GivenInputOf(created_tasks[k]), kind, other_id) # {}

(***************************************************************************)
(* The two sort-key extractors on one task (850-881)                       *)
(***************************************************************************)
\* a key that the dict does not have
Absent == -2

\* the dict of the fields that are present
DictOf(fields) == [k \in { f \in DOMAIN fields : fields[f] # Absent } |-> fields[k]]

KeyStrategies ==
    {"start_date", "due_date", "end_date", "priority", "alphabetical", "created", "manual"}

\* a task input and the record of the task created from it: the five fields
\* are absent, null or set in both alike, the id is the record's alone
KeyCases ==
    { [task_input |-> DictOf([start_date |-> date, due_date |-> date, end_date |-> end,
                              priority |-> priority, title |-> title]),
       created_task |-> DictOf([start_date |-> date, due_date |-> date, end_date |-> end,
                                priority |-> priority, title |-> title, id |-> id]),
       strategy |-> strategy] :
        date \in {Absent, None, 5}, end \in {Absent, 0, 7},
        priority \in {Absent, None, 0, 3},
        title \in {Absent, None, 0, TitleB, TitleLowerB},
        id \in {Absent, FirstNewId}, strategy \in KeyStrategies }

KeyReturned(fn, key) == [fn |-> fn, raised |-> FALSE, key |-> key]
KeyRaised(fn) == [fn |-> fn, raised |-> TRUE, key |-> 0]

KeyCalled(fn) == \E r \in 1..Len(key_out) : key_out[r].fn = fn

\* _get_task_sort_key(created_task, strategy)
TaskSortKeyCall ==
    /\ Len(key_case) = 1
    /\ ~KeyCalled("task")
    /\ key_out' = Append(key_out,
          KeyReturned("task", GetTaskSortKey(key_case[1].created_task, key_case[1].strategy)))
    /\ UNCHANGED key_case
    /\ UNCHANGED notKeyVars

\* _get_input_sort_key(task_input, created_task, strategy)
InputSortKeyCall ==
    /\ Len(key_case) = 1
    /\ ~KeyCalled("input")
    /\ LET c == key_case[1]
       IN  key_out' = Append(key_out,
              IF InputSortKeyRaises(c.task_input, c.strategy)
              THEN KeyRaised("input")
              ELSE KeyReturned("input",
                               GetInputSortKey(c.task_input, c.created_task, c.strategy)))
    /\ UNCHANGED key_case
    /\ UNCHANGED notKeyVars

NextKeys == TaskSortKeyCall \/ InputSortKeyCall

InitKeys ==
    /\ \E c \in KeyCases : key_case = <<c>>
    /\ key_out = <<>>
    /\ AllocIdle /\ MergeIdle /\ BatchIdle
    /\ StoreIdle /\ TemplateIdle /\ SortIdle /\ PlaceIdle /\ AuthIdle

SpecKeys == InitKeys /\ [][NextKeys]_vars

BothKeysOut == KeyCalled("task") /\ KeyCalled("input")

(***************************************************************************)
(* C17.  The two sort-key extractors agree.  For every strategy name and   *)
(* every task whose start, due and end date, priority and title are the    *)
(* same (absent and null included) in the input record and in the created  *)
(* record, the key computed from the input record, with the created        *)
(* record supplying the id, is the key computed from the created record.   *)
(***************************************************************************)
C17_ExtractorsAgree ==
    BothKeysOut =>
        \A r, q \in 1..Len(key_out) :
            /\ ~key_out[r].raised
            /\ key_out[r].key = key_out[q].key

\* the two agree on every task whose title is not null
C17_AgreeUnlessNullTitle ==
    (BothKeysOut /\ Get(key_case[1].task_input, "title", 0) # None) =>
        \A r, q \in 1..Len(key_out) :
            /\ ~key_out[r].raised
            /\ key_out[r].key = key_out[q].key

(***************************************************************************)
(* _sort_bucket_impl (1651-1715), called MaxRuns times in a row            *)
(***************************************************************************)
\* what the actions of sort_bucket leave alone
notSortBucketVars ==
    <<allocVars, mergeVars, storeVars, tmplVars, keyVars, placeVars, authVars,
      tasks, inputVars, next_id,
      label_map, needed, n_tried, view_id, n_existing, bucket_map, ref_map,
      created_tasks, bucket_tasks, cur_bucket>>

SortResult == [sorted |-> 0, tasks |-> <<>>, strategy |-> "manual", errors |-> <<>>]

\* the tasks of a bucket as the view lists them: in the order the service
\* stores them, or by position (stored order among equal positions)
RECURSIVE ByPosition(_)
ByPosition(raw) ==
    IF Len(raw) = 0 THEN <<>>
    ELSE LET front == ByPosition(SubSeq(raw, 1, Len(raw) - 1))
             x == raw[Len(raw)]
             n == Cardinality({ i \in 1..Len(front) : front[i].position <= x.position })
         IN  InsertAt(front, n, x)

ListedTasks(bucket_id, list_order) ==
    IF list_order = "by_position"
    THEN ByPosition(BucketTasksRaw(bucket_id))
    ELSE BucketTasksRaw(bucket_id)

\* line 1698: sorted(tasks_raw, key=lambda t: _get_task_sort_key(t, strategy))
SortedTasks(tasks_raw, strategy) ==
    LET keyed == SortByKey([i \in 1..Len(tasks_raw) |->
                     <<GetTaskSortKey(tasks_raw[i], strategy), tasks_raw[i]>>])
    IN  [i \in 1..Len(keyed) |-> keyed[i][2]]

\* lines 1701-1704: positions 1000.0, 2000.0, ... in sorted order
GapPositions(sorted_tasks) ==
    [i \in 1..Len(sorted_tasks) |->
        [task_id |-> sorted_tasks[i].id, position |-> Pos(i * 1000)]]

\* the pairs (a, b) of tasks of the bucket with a before b by position
RankOrder(members, bucket_id) ==
    LET in_bucket == { k \in 1..Len(members) : members[k].bucket_id = bucket_id }
    IN  { <<members[p[1]].id, members[p[2]].id>> :
            p \in { q \in in_bucket \X in_bucket :
                      members[q[1]].position < members[q[2]].position } }

\* the call returns or raises: the bucket as it is left goes into the history
EndRun(outcome, res, members) ==
    /\ sort_runs' = Append(sort_runs,
          [outcome |-> outcome, result |-> res,
           order |-> RankOrder(members, sort_args.bucket_id),
           before |-> IF Len(sort_runs) = 0 THEN sort_args.order_at_call
                      ELSE sort_runs[Len(sort_runs)].order])
    /\ sort_args' = [sort_args EXCEPT !.runs_left = @ - 1]
    /\ pc' = IF sort_args.runs_left > 1 THEN "sort_call" ELSE "sort_done"
    /\ todo' = <<>>

\* lines 1656-1669: the config of the project
SortBucketCalled ==
    /\ pc = "sort_call"
    /\ project_config' = stored_config
    /\ IF Truthy(stored_config)
       THEN /\ pc' = "sort_list_buckets"
            /\ result' = SortResult
            /\ UNCHANGED <<todo, sort_args, sort_runs>>
       ELSE /\ result' = AddError(SortResult, Error("no_config", 0, "", 0))
            /\ EndRun("returned", result', bucket_members)
    /\ UNCHANGED <<bucket_members, faults, calls>>
    /\ UNCHANGED notSortBucketVars

\* lines 1675-1692: the name of the bucket and its strategy;
\* _list_buckets_impl is called outside any try
SortListBuckets ==
    /\ pc = "sort_list_buckets"
    /\ \E ok \in Outcomes :
        /\ calls' = Append(calls, Call("list_buckets", 0, 0, "", ok))
        /\ faults' = Failed(ok)
        /\ LET found == { i \in 1..Len(remote_buckets) :
                            remote_buckets[i].id = sort_args.bucket_id }
               bucket_name == remote_buckets[CHOOSE i \in found :
                                                \A j \in found : i <= j].title
               strategy == StrategyOf(project_config.d, bucket_name)
           IN  IF ~ok
               THEN /\ UNCHANGED result
                    /\ EndRun("raised", result, bucket_members)
               ELSE IF found = {}
               THEN /\ result' = AddError(result,
                          Error("bucket_not_found", 0, "", 0))
                    /\ EndRun("returned", result', bucket_members)
               ELSE IF strategy = "manual"
               THEN /\ result' = AddError([result EXCEPT !.strategy = strategy],
                          Error("manual", 0, bucket_name, 0))
                    /\ EndRun("returned", result', bucket_members)
               ELSE /\ result' = [result EXCEPT !.strategy = strategy]
                    /\ pc' = "sort_fetch"
                    /\ UNCHANGED <<todo, sort_args, sort_runs>>
    /\ UNCHANGED <<bucket_members, project_config>>
    /\ UNCHANGED notSortBucketVars

\* lines 1694-1704: the tasks of the bucket, sorted, and their new positions;
\* _get_bucket_tasks_raw is called outside any try
SortFetchTasks ==
    /\ pc = "sort_fetch"
    /\ \E ok \in Outcomes :
        /\ calls' = Append(calls,
              Call("get_bucket_tasks", 0, sort_args.bucket_id, "", ok))
        /\ faults' = Failed(ok)
        /\ LET tasks_raw == ListedTasks(sort_args.bucket_id, sort_args.list_order)
               positions == GapPositions(SortedTasks(tasks_raw, result.strategy))
           IN  IF ~ok
               THEN EndRun("raised", result, bucket_members)
               ELSE IF Len(tasks_raw) = 0
               THEN EndRun("returned", result, bucket_members)
               ELSE /\ todo' = positions
                    /\ pc' = "sort_send"
                    /\ UNCHANGED <<sort_args, sort_runs>>
    /\ UNCHANGED <<bucket_members, project_config, result>>
    /\ UNCHANGED notSortBucketVars

\* _batch_set_positions_impl (1607-1626) and lines 1708-1713: one position
\* is sent; a failure is recorded and the loop goes on
SortSetPosition ==
    /\ pc = "sort_send"
    /\ LET pos == Head(todo)
       IN  \E ok \in Outcomes :
            /\ calls' = Append(calls,
                  Call("set_position", pos.task_id, pos.position, "", ok))
            /\ faults' = Failed(ok)
            /\ bucket_members' = IF ok
                                 THEN StorePosition(bucket_members, pos.task_id, pos.position)
                                 ELSE bucket_members
            /\ result' = IF ok
                         THEN [result EXCEPT !.sorted = @ + 1,
                                             !.tasks = Append(@, pos)]
                         ELSE AddError(result,
                                Error("set_position", pos.task_id, "", Len(calls) + 1))
            /\ IF Len(todo) > 1
               THEN /\ todo' = Tail(todo)
                    /\ UNCHANGED <<pc, sort_args, sort_runs>>
               ELSE EndRun("returned", result', bucket_members')
    /\ UNCHANGED project_config
    /\ UNCHANGED notSortBucketVars

NextSortBucket ==
    \/ SortBucketCalled
    \/ SortListBuckets
    \/ SortFetchTasks
    \/ SortSetPosition

\* the tasks of bucket 11: Prepare and Publish are due on the same day with
\* the same priority, Announce is due before them
Prepare == Member(21, 11, TitleC, 2, 1, Pos(1000))
Publish == Member(22, 11, TitleLowerB, 2, 1, Pos(1000))
Announce == Member(23, 11, TitleB, 1, 3, Pos(3000))
Elsewhere == Member(24, 12, TitleD, 0, 0, Pos(500))

SortBucketConfigs ==
    { NoConfig,
      SomeConfig([sort_strategy |-> [default |-> "due_date"]]),
      SomeConfig([sort_strategy |-> [default |-> "manual",
                                     buckets |-> [B1 |-> "priority"]]]),
      SomeConfig([sort_strategy |-> [default |-> "alphabetical",
                                     buckets |-> [B2 |-> "manual"]]]) }

SortBucketMembers == { <<Prepare, Publish, Announce>>, <<Announce, Publish, Prepare>>,
                 <<Publish, Elsewhere, Prepare>>, <<Elsewhere>> }

InitSortBucket ==
    \E cfg \in SortBucketConfigs, members \in SortBucketMembers,
       bucket_id \in {11, 12, 13}, list_order \in {"stored", "by_position"} :
        /\ pc = "sort_call"
        /\ sort_args = [bucket_id |-> bucket_id, list_order |-> list_order,
                        runs_left |-> MaxRuns,
                        order_at_call |-> RankOrder(members, bucket_id)]
        /\ sort_runs = <<>>
        /\ flags = DefaultFlags
        /\ tasks = <<>>
        /\ tasks_in = <<>>
        /\ stored_config = cfg
        /\ remote_labels = EmptyDict
        /\ remote_buckets = <<BucketB1, BucketB2>>
        /\ bucket_members = members
        /\ next_id = FirstNewId
        /\ faults = 0
        /\ project_config = NoConfig
        /\ label_map = EmptyDict
        /\ needed = {}
        /\ n_tried = 0
        /\ view_id = 0
        /\ n_existing = 0
        /\ bucket_map = EmptyDict
        /\ ref_map = EmptyDict
        /\ created_tasks = <<>>
        /\ todo = <<>>
        /\ bucket_tasks = <<>>
        /\ cur_bucket = ""
        /\ result = SortResult
        /\ calls = <<>>
        /\ AllocIdle /\ MergeIdle
        /\ StoreIdle /\ TemplateIdle /\ KeysIdle /\ PlaceIdle /\ AuthIdle

SpecSortBucket == InitSortBucket /\ [][NextSortBucket]_vars

\* the bucket of the calls exists and the stored config gives it a strategy
\* other than manual
SortsByStrategy ==
    /\ Truthy(stored_config)
    /\ \E i \in 1..Len(remote_buckets) :
          /\ remote_buckets[i].id = sort_args.bucket_id
          /\ StrategyOf(stored_config.d, remote_buckets[i].title) # "manual"

\* the run returned a report without errors
CleanRun(run) == run.outcome = "returned" /\ run.result.errors = <<>>

C19_AllocatorCaseTable ==
    \A n \in 1..Len(alloc_log) :
        LET e == alloc_log[n]
            len == Len(e.before)
            i == e.idx
        IN  /\ i \in 0..len
            /\ \A j \in 1..i : e.before[j][1] < e.key
            /\ \A j \in (i + 1)..len : e.before[j][1] >= e.key
            /\ len = 0 => e.pos = Pos(1000)
            /\ (len > 0 /\ i = len) => e.pos = e.before[len][2] + Pos(1000)
            /\ (0 < i /\ i < len) => 2 * e.pos = e.before[i][2] + e.before[i + 1][2]
            /\ (len > 0 /\ i = 0) =>
                  /\ e.before[1][2] > 0 => 2 * e.pos = e.before[1][2]
                  /\ e.before[1][2] <= 0 => e.pos = Pos(-1000)

\* one pass that took the tail, the head and the middle case, the middle
\* one before a key equal to the new one
C19_Witness ==
    /\ Len(alloc_log) = 3
    /\ \E n \in 1..3 : alloc_log[n].idx = Len(alloc_log[n].before)
                       /\ alloc_log[n].idx > 0
    /\ \E n \in 1..3 : alloc_log[n].idx = 0 /\ Len(alloc_log[n].before) > 0
    /\ \E n \in 1..3 :
          /\ 0 < alloc_log[n].idx /\ alloc_log[n].idx < Len(alloc_log[n].before)
          /\ alloc_log[n].before[alloc_log[n].idx + 1][1] = alloc_log[n].key

\* the ids of the new tasks of a bucket (line 1336)
NewTaskIds(bucket_name) ==
    { TasksOfBucket(Ctx, bucket_name)[k].id :
        k \in 1..Len(TasksOfBucket(Ctx, bucket_name)) }

\* the place of a created task in the inputs
InputIndexOf(task_id) ==
    created_tasks[CHOOSE k \in 1..Len(created_tasks) : created_tasks[k].id = task_id].idx

\* the allocations made for the bucket of allocation n before it
EarlierInBucket(n) == { m \in 1..(n - 1) : alloc_log[m].bucket = alloc_log[n].bucket }

(***************************************************************************)
(* C20.  Sequential dependency in auto-sort.  Within one bucket the new    *)
(* tasks are processed in input order, and the position of the n-th new    *)
(* task is computed against a working sequence that holds the existing     *)
(* members of the bucket, all new tasks of that bucket left out, plus the  *)
(* (key, position) entries of the n-1 new tasks processed before it, each  *)
(* at the index it was inserted at.                                        *)
(***************************************************************************)
C20_SequentialDependency ==
    \A n \in 1..Len(alloc_log) :
        LET e == alloc_log[n]
            new_tasks == TasksOfBucket(Ctx, e.bucket)
            nth == Cardinality(EarlierInBucket(n)) + 1
        IN  /\ nth <= Len(new_tasks)
            /\ e.task = new_tasks[nth].id
            /\ \A m \in EarlierInBucket(n) :
                  InputIndexOf(alloc_log[m].task) < InputIndexOf(e.task)
            /\ Len(e.before) =
                  Cardinality({ i \in 1..Len(bucket_members) :
                                  /\ bucket_members[i].bucket_id = bucket_map[e.bucket]
                                  /\ bucket_members[i].id \notin NewTaskIds(e.bucket) })
                  + (nth - 1)
            /\ IF nth = 1
               THEN e.before =
                        ExistingSorted(BucketTasksRaw(bucket_map[e.bucket]),
                                       NewTaskIds(e.bucket),
                                       StrategyOf(project_config.d, e.bucket))
               ELSE LET prev == alloc_log[n - 1]
                        i == prev.idx
                    IN  /\ prev.bucket = e.bucket
                        /\ e.before[i + 1] = <<prev.key, prev.pos>>
                        /\ SubSeq(e.before, 1, i) = SubSeq(prev.before, 1, i)
                        /\ SubSeq(e.before, i + 2, Len(e.before))
                              = SubSeq(prev.before, i + 1, Len(prev.before))

\* two new tasks of one bucket that holds a member: the second was placed
\* between the member and the first, at the mean of their positions
C20_Witness ==
    /\ pc = "done"
    /\ Len(alloc_log) = 2
    /\ alloc_log[1].bucket = alloc_log[2].bucket
    /\ Len(alloc_log[1].before) = 1
    /\ Len(alloc_log[2].before) = 2
    /\ alloc_log[2].idx = 1
    /\ <<alloc_log[1].key, alloc_log[1].pos>> \in
          {alloc_log[2].before[1], alloc_log[2].before[2]}
    /\ 2 * alloc_log[2].pos = alloc_log[2].before[1][2] + alloc_log[2].before[2][2]

\* the phase of a call that writes to the service, 0 for a call that reads
PhaseOfCall(op) ==
    CASE op = "create_label" -> 1
      [] op = "create_bucket" -> 2
      [] op = "create_task" -> 3
      [] op = "add_label" -> 4
      [] op = "create_relation" -> 5
      [] op = "set_bucket" -> 6
      [] op = "set_position" -> 7
      [] OTHER -> 0

WritingCalls == { c \in 1..Len(calls) : PhaseOfCall(calls[c].op) > 0 }

(***************************************************************************)
(* C21.  Phase ordering of the service calls of one batch create.  Every   *)
(* label-create call precedes every bucket-create call, these precede      *)
(* every task-create call, these every label-attach call, these every      *)
(* relation-create call, these every bucket-placement call, and these      *)
(* every position-set call; the calls are issued one at a time, each step  *)
(* adding at most one call to the end of those issued before.              *)
(***************************************************************************)
C21_PhaseOrdering ==
    /\ [](\A c, d \in WritingCalls :
            c < d => PhaseOfCall(calls[c].op) <= PhaseOfCall(calls[d].op))
    /\ [][ \/ calls' = calls
           \/ \E call \in { calls'[Len(calls')] } : calls' = Append(calls, call) ]_vars

\* one batch that issued a call of each of the seven kinds
C21_Witness ==
    /\ pc = "done"
    /\ { PhaseOfCall(calls[c].op) : c \in WritingCalls } = 1..7

\* the create calls made for the input at idx
CreateCallsFor(idx) == { c \in CallsOf("create_task") : calls[c].arg = idx }

\* the inputs whose create call failed
FailedInputs == { i \in 1..Len(tasks) : \E c \in CreateCallsFor(i) : ~calls[c].ok }

\* the calls made on behalf of one created task
PerTaskOps == {"add_label", "create_relation", "set_bucket", "set_position"}

(***************************************************************************)
(* C22.  Task creation is attempted once per input, in input order.  When  *)
(* the create call of an input fails, one error is recorded, the input     *)
(* registers no ref (a ref is in the ref map only for a created task that  *)
(* declares it), and no label-attach, relation-create, bucket-placement    *)
(* or position-set call is ever issued on behalf of that input.            *)
(***************************************************************************)
C22_CreateOncePerInput ==
    /\ \A i \in 1..Len(tasks) : Cardinality(CreateCallsFor(i)) <= 1
    /\ \A c, d \in CallsOf("create_task") : c < d => calls[c].arg < calls[d].arg
    /\ pc \in {"attach_labels", "relations", "placement", "sort_buckets", "sort_tasks", "done"}
          => \A i \in 1..Len(tasks) : Cardinality(CreateCallsFor(i)) = 1
    /\ \A i \in FailedInputs :
          /\ \A c \in CreateCallsFor(i) :
                Cardinality({ e \in ErrorsOf("create_task") : result.errors[e].call = c }) = 1
          /\ \A k \in 1..Len(created_tasks) : created_tasks[k].idx # i
          /\ \A r \in 1..Len(result.tasks) :
                \E k \in 1..Len(created_tasks) :
                    created_tasks[k].id = result.tasks[r].id /\ created_tasks[k].idx # i
    /\ \A ref \in DOMAIN ref_map :
          \E k \in 1..Len(created_tasks) :
              /\ created_tasks[k].id = ref_map[ref]
              /\ tasks[created_tasks[k].idx].ref = ref
              /\ created_tasks[k].idx \notin FailedInputs
    /\ \A c \in 1..Len(calls) :
          calls[c].op \in PerTaskOps =>
              \E k \in 1..Len(created_tasks) :
                  /\ created_tasks[k].id = calls[c].task
                  /\ created_tasks[k].idx \notin FailedInputs

\* the create call of an input with a ref, labels and a bucket failed; the
\* ref is unknown to the task that names it, and the other task was
\* labelled and placed
C22_Witness ==
    /\ pc = "done"
    /\ \E i \in FailedInputs :
          /\ tasks[i].ref = "a" /\ "a" \notin DOMAIN ref_map
          /\ tasks[i].labels # <<>> /\ tasks[i].bucket # ""
    /\ Len(created_tasks) = 1
    /\ ErrorsOf("unknown_ref") # {}
    /\ \E c, d \in 1..Len(calls) : calls[c].op = "add_label" /\ calls[d].op = "set_bucket"

\* the strategy the stored config gives a bucket name: its override if there
\* is one, else the default, else manual
EffectiveStrategy(bucket_name) ==
    LET cfg == stored_config.d
    IN  IF "sort_strategy" \notin DOMAIN cfg THEN "manual"
        ELSE IF /\ "buckets" \in DOMAIN cfg.sort_strategy
                /\ bucket_name \in DOMAIN cfg.sort_strategy.buckets
        THEN cfg.sort_strategy.buckets[bucket_name]
        ELSE IF "default" \in DOMAIN cfg.sort_strategy
        THEN cfg.sort_strategy.default
        ELSE "manual"

ViewObtained == \E c \in CallsOf("get_kanban_view") : calls[c].ok

\* the bucket named by the input of a created task
BucketOfTask(task_id) ==
    tasks[created_tasks[CHOOSE k \in 1..Len(created_tasks) :
                            created_tasks[k].id = task_id].idx].bucket

(***************************************************************************)
(* C23.  Auto-sort gating.  Batch create issues a computed position-set    *)
(* call only if apply_sort is set, a stored project config was loaded and  *)
(* the kanban view was obtained, and never for a task whose bucket has the *)
(* effective strategy "manual": the override for the bucket name if there  *)
(* is one, else the default of the config, else "manual" when the config   *)
(* has no sort_strategy.                                                   *)
(***************************************************************************)
C23_AutoSortGating ==
    \A c \in CallsOf("set_position") :
        /\ flags.apply_sort
        /\ flags.use_project_config
        /\ stored_config.some
        /\ project_config = stored_config
        /\ ViewObtained
        /\ calls[c].task \in CreatedIds
        /\ EffectiveStrategy(BucketOfTask(calls[c].task)) # "manual"

\* a config whose default sorts and whose override for B2 is manual: the
\* task put into B1 was sent a position, the task put into B2 was not
C23_Witness ==
    /\ pc = "done"
    /\ Len(created_tasks) = 2
    /\ Cardinality(CallsOf("set_position")) = 1
    /\ \E c, d \in CallsOf("set_bucket") :
          /\ calls[c].ok /\ calls[d].ok
          /\ calls[c].name = "B1" /\ calls[d].name = "B2"
          /\ EffectiveStrategy("B2") = "manual"
          /\ \E p \in CallsOf("set_position") : calls[p].task = calls[c].task

(***************************************************************************)
(* C24.  Report accounting of batch create.  In the returned report,       *)
(* created is the length of the tasks list and the number of task-create   *)
(* calls that succeeded, created plus the number of task-creation error    *)
(* entries is the number of inputs, and relations_created is the number    *)
(* of relation-create calls that succeeded.                                *)
(***************************************************************************)
C24_ReportAccounting ==
    pc = "done" =>
        /\ result.created = Len(result.tasks)
        /\ result.created = Cardinality({ c \in CallsOf("create_task") : calls[c].ok })
        /\ result.created + Cardinality(ErrorsOf("create_task")) = Len(tasks_in)
        /\ result.relations_created
              = Cardinality({ c \in CallsOf("create_relation") : calls[c].ok })

\* a report of two inputs: one task created, one not, and of the two
\* relations of the created task one sent and one naming the task that failed
C24_Witness ==
    /\ pc = "done"
    /\ Len(tasks_in) = 2
    /\ result.created = 1
    /\ Cardinality(ErrorsOf("create_task")) = 1
    /\ result.relations_created = 1
    /\ Cardinality(ErrorsOf("unknown_ref")) = 1

\* the created tasks whose bucket name has no id in the bucket map
UnresolvedBucketTasks ==
    { k \in 1..Len(created_tasks) :
        /\ InputOf(created_tasks[k]).bucket # ""
        /\ InputOf(created_tasks[k]).bucket \notin DOMAIN bucket_map }

BucketNotFoundReported(ct) ==
    \E e \in ErrorsOf("bucket_not_found") :
        /\ result.errors[e].task = ct.id
        /\ result.errors[e].name = InputOf(ct).bucket

(***************************************************************************)
(* C25.  Unresolved bucket reporting.  Whenever the kanban view was        *)
(* obtained, every created task whose bucket name has no identifier in the *)
(* bucket map (the bucket is absent and was not created, or its creation   *)
(* failed) has a "Bucket not found" entry in the returned report, also     *)
(* when the project has no bucket at all.                                  *)
(***************************************************************************)
C25_UnresolvedBucketReported ==
    (pc = "done" /\ ViewObtained) =>
        \A k \in UnresolvedBucketTasks : BucketNotFoundReported(created_tasks[k])

\* what the code does: the entries are written when the bucket map holds at
\* least one bucket, and none is written when it is empty
C25_ReportedUnlessMapEmpty ==
    (pc = "done" /\ ViewObtained) =>
        IF DOMAIN bucket_map # {}
        THEN \A k \in UnresolvedBucketTasks : BucketNotFoundReported(created_tasks[k])
        ELSE ErrorsOf("bucket_not_found") = {}

\* the position-set call made for a task
PositionCallOf(task_id) ==
    CHOOSE c \in CallsOf("set_position") : calls[c].task = task_id

\* the allocations whose position-set call failed
FailedAllocations ==
    { n \in 1..Len(alloc_log) : ~calls[PositionCallOf(alloc_log[n].task)].ok }

StoredPosition(task_id) ==
    bucket_members[CHOOSE i \in 1..Len(bucket_members) :
                      bucket_members[i].id = task_id].position

(***************************************************************************)
(* C26.  When the position-set call of a new task fails during auto-sort,  *)
(* one error is recorded and the (key, position) entry computed for the    *)
(* task is still inserted into the working sequence, so the next new task  *)
(* of the bucket is positioned against an entry whose position the         *)
(* service never stored: the task keeps the position it was placed with.   *)
(***************************************************************************)
C26_FailedPositionStillInserted ==
    \A n \in FailedAllocations :
        LET e == alloc_log[n]
            c == PositionCallOf(e.task)
        IN  /\ Cardinality({ x \in ErrorsOf("set_position") :
                              result.errors[x].call = c /\ result.errors[x].task = e.task }) = 1
            /\ Cardinality({ d \in CallsOf("set_position") : calls[d].task = e.task }) = 1
            /\ \A i \in 1..Len(bucket_members) :
                  bucket_members[i].id = e.task => bucket_members[i].position = 0
            /\ (pc = "sort_tasks" /\ n = Len(alloc_log) /\ cur_bucket = e.bucket) =>
                  /\ Len(existing_sorted) = Len(e.before) + 1
                  /\ existing_sorted[e.idx + 1] = <<e.key, e.pos>>
            /\ (n < Len(alloc_log) /\ alloc_log[n + 1].bucket = e.bucket) =>
                  /\ Len(alloc_log[n + 1].before) = Len(e.before) + 1
                  /\ alloc_log[n + 1].before[e.idx + 1] = <<e.key, e.pos>>

\* the first new task of the bucket was not given its position, and the
\* second was put right after it, at that position + 1000.0
C26_Witness ==
    /\ pc = "done"
    /\ Len(alloc_log) = 2
    /\ 1 \in FailedAllocations
    /\ 2 \notin FailedAllocations
    /\ alloc_log[2].bucket = alloc_log[1].bucket
    /\ alloc_log[2].idx = alloc_log[1].idx + 1
    /\ alloc_log[2].idx = Len(alloc_log[2].before)
    /\ alloc_log[2].pos = alloc_log[1].pos + Pos(1000)
    /\ \A n \in 1..2 : \E i \in 1..Len(bucket_members) :
          bucket_members[i].id = alloc_log[n].task
    /\ StoredPosition(alloc_log[1].task) # alloc_log[1].pos
    /\ StoredPosition(alloc_log[2].task) = alloc_log[2].pos

LabelListFailed == \E c \in CallsOf("list_labels") : ~calls[c].ok

(***************************************************************************)
(* C27.  A failure to fetch the label list at the start of batch create is *)
(* not a per-item error: the call raises, no report is returned and no     *)
(* error entry is written, the label list is the only call that was made,  *)
(* so that no label, bucket or task has been created, and nothing more is  *)
(* done.                                                                   *)
(***************************************************************************)
C27_LabelListFailureRaises ==
    LabelListFailed =>
        /\ pc = "raised"
        /\ Len(calls) = 1
        /\ result = EmptyResult
        /\ created_tasks = <<>>
        /\ next_id = FirstNewId
        /\ \A i \in 1..Len(bucket_members) : bucket_members[i].id < FirstNewId
        /\ ~ENABLED NextBatch

\* the label list failed for a batch of two inputs with labels to create
C27_Witness ==
    /\ LabelListFailed
    /\ pc = "raised"
    /\ Len(tasks_in) = 2
    /\ flags.create_missing_labels
    /\ \E i \in 1..2 : tasks_in[i].labels # <<>> /\ tasks_in[i].bucket # ""

(***************************************************************************)
(* _set_task_position_impl (430-526), called with a task the batch created *)
(***************************************************************************)
\* what the actions of set_task_position leave alone
notPlaceVars ==
    <<allocVars, mergeVars, storeVars, tmplVars, keyVars, sortVars, authVars,
      tasks, inputVars, next_id, project_config, label_map, needed, n_tried, view_id,
      n_existing, bucket_map, ref_map, created_tasks, todo, bucket_tasks, cur_bucket,
      result>>

\* _format_task (124-142): the fields of the record that the keys read
FormatTask(task) ==
    [id |-> task.id, title |-> task.title, priority |-> Get(task, "priority", 0),
     start_date |-> Get(task, "start_date", None),
     end_date |-> Get(task, "end_date", None),
     due_date |-> Get(task, "due_date", None)]

\* lines 468-473: the title of the first bucket with the id, "" when the
\* view has none
BucketTitleOf(bucket_id) ==
    LET listed == { i \in 1..Len(remote_buckets) : remote_buckets[i].id = bucket_id }
    IN  IF listed # {}
        THEN remote_buckets[CHOOSE i \in listed : \A j \in listed : i <= j].title
        ELSE ""

\* a filter that keeps the task being placed among its neighbours
SingleExistingUnfiltered(existing_raw, task_id, strategy) ==
    SortByKey([i \in 1..Len(existing_raw) |->
        <<GetTaskSortKey(existing_raw[i], strategy), Get(existing_raw[i], "position", 0)>>])

\* lines 490-499: the other tasks of the bucket as (key, position), by key
SingleExisting(existing_raw, task_id, strategy) ==
    LET others == Flatten([i \in 1..Len(existing_raw) |->
                      IF existing_raw[i].id # task_id
                      THEN <<existing_raw[i]>> ELSE <<>>])
    IN  SortByKey([i \in 1..Len(others) |->
            <<GetTaskSortKey(others[i], strategy), Get(others[i], "position", 0)>>])

\* lines 507-520: the position between the neighbours
SingleNewPos(existing_sorted_, insert_idx) ==
    IF Len(existing_sorted_) = 0
    THEN Pos(1000)
    ELSE IF insert_idx = 0
    THEN LET first_pos == existing_sorted_[1][2]
         IN  IF first_pos > 0 THEN Half(first_pos) ELSE Pos(-1000)
    ELSE IF insert_idx >= Len(existing_sorted_)
    THEN LET last_pos == existing_sorted_[Len(existing_sorted_)][2]
         IN  last_pos + Pos(1000)
    ELSE LET prev_pos == existing_sorted_[insert_idx][2]
             next_pos == existing_sorted_[insert_idx + 1][2]
         IN  Half(prev_pos + next_pos)

PlaceEnds(outcome) ==
    /\ pc' = outcome
    /\ UNCHANGED place_call

\* the call: a task the batch created, and the id the batch has for its bucket
SetTaskPositionCalled ==
    /\ pc = "done"
    /\ place_call = <<>>
    /\ \E k \in 1..Len(created_tasks), apply_sort \in BOOLEAN :
        /\ InputOf(created_tasks[k]).bucket \in DOMAIN bucket_map
        /\ place_call' = [task_id |-> created_tasks[k].id, ct |-> k,
                          bucket_id |-> bucket_map[InputOf(created_tasks[k]).bucket],
                          apply_sort |-> apply_sort, strategy |-> "manual",
                          task |-> <<>>, existing |-> <<>>, computed |-> FALSE,
                          position_set |-> FALSE, position |-> 0]
    /\ pc' = "place_add"
    /\ UNCHANGED <<bucket_members, faults, calls>>
    /\ UNCHANGED notPlaceVars

\* lines 443-461: the task is added to the bucket; without apply_sort or a
\* config that is all
PlaceAddToBucket ==
    /\ pc = "place_add"
    /\ \E ok \in Outcomes :
        /\ calls' = Append(calls,
              Call("set_bucket", place_call.task_id, place_call.bucket_id, "", ok))
        /\ faults' = Failed(ok)
        /\ IF ~ok
           THEN /\ PlaceEnds("place_raised")
                /\ UNCHANGED bucket_members
           ELSE /\ bucket_members' =
                      IF \E i \in 1..Len(bucket_members) :
                            bucket_members[i].id = place_call.task_id
                      THEN [i \in 1..Len(bucket_members) |->
                              IF bucket_members[i].id = place_call.task_id
                              THEN [bucket_members[i] EXCEPT
                                      !.bucket_id = place_call.bucket_id]
                              ELSE bucket_members[i]]
                      ELSE Append(bucket_members,
                              MemberOf(created_tasks[place_call.ct],
                                       InputOf(created_tasks[place_call.ct]),
                                       place_call.bucket_id))
                /\ IF place_call.apply_sort /\ Truthy(stored_config)
                   THEN PlaceEnds("place_list_buckets")
                   ELSE PlaceEnds("place_returned")
    /\ UNCHANGED notPlaceVars

\* lines 467-481: the name of the bucket and its strategy
PlaceListBuckets ==
    /\ pc = "place_list_buckets"
    /\ \E ok \in Outcomes :
        /\ calls' = Append(calls, Call("list_buckets", 0, 0, "", ok))
        /\ faults' = Failed(ok)
        /\ LET bucket_name == BucketTitleOf(place_call.bucket_id)
               strategy == StrategyOf(stored_config.d, bucket_name)
           IN  IF ~ok
               THEN PlaceEnds("place_raised")
               ELSE IF bucket_name = "" \/ strategy = "manual"
               THEN PlaceEnds("place_returned")
               ELSE /\ place_call' = [place_call EXCEPT !.strategy = strategy]
                    /\ pc' = "place_get_task"
    /\ UNCHANGED bucket_members
    /\ UNCHANGED notPlaceVars

\* line 484: the task is fetched for its key
PlaceGetTask ==
    /\ pc = "place_get_task"
    /\ \E ok \in Outcomes :
        /\ calls' = Append(calls, Call("get_task", place_call.task_id, 0, "", ok))
        /\ faults' = Failed(ok)
        /\ IF ~ok
           THEN PlaceEnds("place_raised")
           ELSE LET i == CHOOSE j \in 1..Len(bucket_members) :
                            bucket_members[j].id = place_call.task_id
                IN  /\ place_call' =
                          [place_call EXCEPT !.task = FormatTask(bucket_members[i])]
                    /\ pc' = "place_fetch"
    /\ UNCHANGED bucket_members
    /\ UNCHANGED notPlaceVars

\* lines 487-520: the other tasks of the bucket, the key and the position
PlaceFetchBucket ==
    /\ pc = "place_fetch"
    /\ \E ok \in Outcomes :
        /\ calls' = Append(calls,
              Call("get_bucket_tasks", 0, place_call.bucket_id, "", ok))
        /\ faults' = Failed(ok)
        /\ IF ~ok
           THEN PlaceEnds("place_raised")
           ELSE LET existing_raw == BucketTasksRaw(place_call.bucket_id)
                    existing == SingleExisting(existing_raw, place_call.task_id,
                                               place_call.strategy)
                    new_key == GetTaskSortKey(place_call.task, place_call.strategy)
                    insert_idx == BisectLeft(KeysOf(existing), new_key)
                IN  /\ place_call' =
                          [place_call EXCEPT !.existing = existing,
                                             !.computed = TRUE,
                                             !.position = SingleNewPos(existing, insert_idx)]
                    /\ pc' = "place_set"
    /\ UNCHANGED bucket_members
    /\ UNCHANGED notPlaceVars

\* lines 522-526: the position is sent, in no try
PlaceSetPosition ==
    /\ pc = "place_set"
    /\ \E ok \in Outcomes :
        /\ calls' = Append(calls,
              Call("set_position", place_call.task_id, place_call.position, "", ok))
        /\ faults' = Failed(ok)
        /\ IF ~ok
           THEN /\ PlaceEnds("place_raised")
                /\ UNCHANGED bucket_members
           ELSE /\ bucket_members' = StorePosition(bucket_members, place_call.task_id,
                                                   place_call.position)
                /\ place_call' = [place_call EXCEPT !.position_set = TRUE]
                /\ pc' = "place_returned"
    /\ UNCHANGED notPlaceVars

NextPlace ==
    \/ NextBatch
    \/ SetTaskPositionCalled
    \/ PlaceAddToBucket
    \/ PlaceListBuckets
    \/ PlaceGetTask
    \/ PlaceFetchBucket
    \/ PlaceSetPosition

\* batches of at most one task under every config and view of the sort
\* scenarios, and the end-to-end scenario
InitPlace ==
    \/ \E task_list \in ListsOver(SortPool, 1), fl \in SortFlags,
          cfg \in SortConfigs, remote \in SortRemotes :
          BatchCalled(task_list, fl, cfg, EmptyDict, remote.buckets, remote.members)
    \/ InitFull

SpecPlace == InitPlace /\ [][NextPlace]_vars

\* the allocations the batch made for the task of the call
BatchAllocationsOf(task_id) ==
    { n \in 1..Len(alloc_log) : alloc_log[n].task = task_id }

\* the task was the only one the batch allocated in its bucket
OnlyNewTaskOfBucket(n) ==
    \A m \in 1..Len(alloc_log) : alloc_log[m].bucket = alloc_log[n].bucket => m = n

\* C28: for a task that was the only new task of its bucket in a batch, the
\* single-task allocator run on the same bucket with the same strategy
\* computes the position the batch allocator computed for it.
C28_SingleMatchesBatch ==
    (place_call # <<>> /\ place_call.computed) =>
        \A n \in BatchAllocationsOf(place_call.task_id) :
            (OnlyNewTaskOfBucket(n)
                /\ bucket_map[alloc_log[n].bucket] = place_call.bucket_id) =>
                /\ place_call.existing = alloc_log[n].before
                /\ place_call.position = alloc_log[n].pos

\* both allocators placed the task between two older tasks of its bucket
C28_Witness ==
    /\ place_call # <<>>
    /\ place_call.computed
    /\ \E n \in BatchAllocationsOf(place_call.task_id) :
        /\ OnlyNewTaskOfBucket(n)
        /\ bucket_map[alloc_log[n].bucket] = place_call.bucket_id
        /\ Len(alloc_log[n].before) >= 2
        /\ alloc_log[n].idx \in 1..(Len(alloc_log[n].before) - 1)
        /\ place_call.position = alloc_log[n].pos

(***************************************************************************)
(* C29.  Frame condition of the config operations, one caller.             *)
(***************************************************************************)
\* the entries of the other projects are the same in both documents
OthersUnchanged(before, after, p) ==
    /\ (DOMAIN before) \ {p} = (DOMAIN after) \ {p}
    /\ \A q \in (DOMAIN before) \ {p} : after[q] = before[q]

\* C29: with one caller, an operation for project p leaves the stored entry
\* of every other project as it was, whether it returned or raised; an
\* update that returned for a project with no entry stored its partial as
\* the entry; a set that returned stored the config it was given and
\* reported created exactly when the project had no entry; a delete that
\* returned left no entry for the project.
C29_StoreFrame ==
    \A i \in 1..Len(store_log) :
        LET e == store_log[i]
        IN  /\ OthersUnchanged(e.disk_before, e.disk_after, e.op.p)
            /\ (e.op.kind = "update" /\ e.outcome = "returned"
                    /\ e.op.p \notin DOMAIN e.disk_before) =>
                  /\ e.op.p \in DOMAIN e.disk_after
                  /\ e.disk_after[e.op.p] = e.op.arg
            /\ (e.op.kind = "set" /\ e.outcome = "returned") =>
                  /\ e.op.p \in DOMAIN e.disk_after
                  /\ e.disk_after[e.op.p] = e.op.arg
                  /\ e.flag = (e.op.p \notin DOMAIN e.disk_before)
            /\ (e.op.kind = "delete" /\ e.outcome = "returned") =>
                  e.op.p \notin DOMAIN e.disk_after

\* a set replaced an entry and reported no creation, then a delete removed
\* an entry, then an update created the entry of a project that had none,
\* each with the entry of another project on disk
C29_Witness ==
    /\ Len(store_log) = MaxOps
    /\ \A i \in 1..Len(store_log) :
          /\ store_log[i].outcome = "returned"
          /\ (DOMAIN store_log[i].disk_before) \ {store_log[i].op.p} # {}
    /\ store_log[1].op.kind = "set" /\ ~store_log[1].flag
    /\ store_log[1].disk_after # store_log[1].disk_before
    /\ store_log[2].op.kind = "delete" /\ store_log[2].saved
    /\ store_log[3].op.kind = "update" /\ ~store_log[3].found

(***************************************************************************)
(* APIKeyAuthMiddleware.dispatch (server.py 2083-2114).                    *)
(* A text is the sequence of its characters; the environment variable, a   *)
(* header and a query parameter are each present with a text, or absent.   *)
(***************************************************************************)
Present(text) == [present |-> TRUE, value |-> text]
Missing == [present |-> FALSE, value |-> <<>>]

\* PUBLIC_PATHS = {"/health"}
PUBLIC_PATHS == {"/health"}

\* status_code=401
Unauthorized == 401

\* mapping.get(name, ""): the text, the empty text when the name is absent
GetOrEmpty(entry) == IF entry.present THEN entry.value ELSE <<>>

\* a header that counts as valid whenever it begins with "Bearer "
BearerAnyKey(api_key, auth_header) ==
    /\ Len(auth_header) >= 7
    /\ SubSeq(auth_header, 1, 7) = <<"B", "e", "a", "r", "e", "r", " ">>

\* auth_header == f"Bearer {api_key}"
BearerMatches(api_key, auth_header) ==
    auth_header = <<"B", "e", "a", "r", "e", "r", " ">> \o api_key

\* the response of dispatch: the request went to call_next, or a 401
DispatchResult(env, path, auth_header, query_key) ==
    IF path \in PUBLIC_PATHS
    THEN [forwarded |-> TRUE, status |-> 0]
    ELSE IF ~env.present \/ env.value = <<>>
    THEN [forwarded |-> TRUE, status |-> 0]
    ELSE IF BearerMatches(env.value, GetOrEmpty(auth_header))
    THEN [forwarded |-> TRUE, status |-> 0]
    ELSE IF query_key.present /\ query_key.value = env.value
    THEN [forwarded |-> TRUE, status |-> 0]
    ELSE [forwarded |-> FALSE, status |-> Unauthorized]

KeyOne == <<"k", "1">>
KeyTwo == <<"k", "2">>
Bearer == <<"B", "e", "a", "r", "e", "r", " ">>

EnvValues == {Missing, Present(<<>>), Present(KeyOne), Present(KeyTwo)}
RequestPaths == {"/health", "/health/", "/sse", "/"}
HeaderValues ==
    {Missing, Present(<<>>), Present(KeyOne), Present(Bearer),
     Present(Bearer \o KeyOne), Present(Bearer \o KeyTwo),
     Present(<<"b", "e", "a", "r", "e", "r", " ">> \o KeyOne),
     Present(Bearer \o KeyOne \o <<" ">>)}
QueryValues == {Missing, Present(<<>>), Present(KeyOne), Present(KeyTwo)}

\* a request arrives
InitAuth ==
    /\ \E env \in EnvValues, path \in RequestPaths,
          auth_header \in HeaderValues, query_key \in QueryValues :
          auth_case = [env |-> env, path |-> path, auth_header |-> auth_header,
                       query_key |-> query_key]
    /\ auth_out = <<>>
    /\ AllocIdle /\ MergeIdle /\ BatchIdle
    /\ StoreIdle /\ TemplateIdle /\ KeysIdle /\ SortIdle /\ PlaceIdle

Dispatch ==
    /\ auth_case # <<>>
    /\ auth_out = <<>>
    /\ auth_out' = DispatchResult(auth_case.env, auth_case.path,
                                  auth_case.auth_header, auth_case.query_key)
    /\ UNCHANGED auth_case
    /\ UNCHANGED notAuthVars

NextAuth == Dispatch

SpecAuth == InitAuth /\ [][NextAuth]_vars

KeyConfigured == auth_case.env.present /\ auth_case.env.value # <<>>

\* C30: with a key configured, a request to a path other than /health is
\* forwarded exactly when its Authorization header is "Bearer " followed by
\* the key or its api_key parameter is the key, and is otherwise answered
\* with 401 and not forwarded; a request to /health is forwarded, and so is
\* every request when no key is configured.
C30_ApiKeyGate ==
    auth_out # <<>> =>
        /\ auth_case.path = "/health" => auth_out.forwarded
        /\ ~KeyConfigured => auth_out.forwarded
        /\ (KeyConfigured /\ auth_case.path # "/health") =>
              /\ auth_out.forwarded <=>
                    \/ /\ auth_case.auth_header.present
                       /\ auth_case.auth_header.value = Bearer \o auth_case.env.value
                    \/ /\ auth_case.query_key.present
                       /\ auth_case.query_key.value = auth_case.env.value
              /\ ~auth_out.forwarded => auth_out.status = Unauthorized

\* a request with the bearer token of another key and no parameter was
\* answered with 401
C30_Witness ==
    /\ auth_out # <<>>
    /\ auth_case.env = Present(KeyOne)
    /\ auth_case.path = "/sse"
    /\ auth_case.auth_header = Present(Bearer \o KeyTwo)
    /\ auth_case.query_key = Missing
    /\ ~auth_out.forwarded
    /\ auth_out.status = Unauthorized

====
